---- MODULE Spec2Model ----
(***************************************************************************)
(* A model of the cross-sample splice collator of nexons.py:               *)
(* collate_splice_variants and create_splice_name_map, applied to one gene *)
(* (the gene loop keeps no state between genes), together with the parts   *)
(* of read_gtf, convert_splice_pattern and process_bam_file that build its *)
(* inputs.                                                                 *)
(*                                                                         *)
(* A Python dict is a sequence of records with a field "key", in insertion *)
(* order.  A splice pattern is a tuple of tuples of coordinates, as in the *)
(* source: <<<<100>>, <<150, 160>>, <<200>>>>.                             *)
(***************************************************************************)
EXTENDS Integers, Sequences, FiniteSets, TLC

VARIABLES
    genes_transcripts_exons, \* the gene's annotation: transcripts, donors, acceptors
    data,                    \* data[bam]: dict splice -> count, start, end
    flexibility,
    splice_counts,           \* splice_counts[gene]: dict splice -> metadata
    unknown_transcript,
    all_donors,
    all_acceptors,
    all_splices,
    map_to_return,           \* the splice_name_map under construction
    valid_splice_patterns,
    merged_data,             \* merged_data[bam][gene]: dict splice -> bucket
    pc,                      \* where collate_splice_variants is
    k,                       \* position of the running loop
    error,                   \* the exception that ended the call, or "none"
    \* process_bam_file and get_chexons_segment_string
    genes,                   \* the annotation: gene_id -> name, chrom, strand, ...
    chromosomes,             \* the names of the chromosomes with sequence
    min_exons,
    min_coverage,            \* in percent
    map_threshold,           \* in percent
    bam_reads,               \* what get_reads returns for a gene of the sample
    gene_names,              \* the names the loop of line 565 has still to visit
    gene_info,
    reads,
    progress_counter,
    files,                   \* the scratch files that exist in /dev/shm
    gene_counts,
    reasons_for_failure,
    counts,
    locations,
    cDNA_locations,
    reverse_exon_index,
    reverse_exon_first,
    chexons_result,
    raised,                  \* the exception in flight, or "none"
    warnings,                \* the messages of line 662, one per caught exception
    qpc,                     \* where process_bam_file is
    \* main and the two writers
    direction,               \* options.direction
    minexons,                \* options.minexons
    mincount,                \* options.mincount
    both_out,                \* options.both_out
    gtf_out,                 \* options.gtf_out
    outfile,                 \* options.outfile
    fasta,                   \* the names of the sequences of options.fasta, in file order
    bam_files,               \* the number of BAM files of the command line
    quantitations,           \* quantitations[bam]: dict gene -> gene_counts
    outputs,                 \* the output directory and files the run has created
    uncaught,                \* the exception that ended the run, or "none"
    mpc                      \* where main is

\* the variables of collate_splice_variants
cvars == <<genes_transcripts_exons, data, splice_counts,
           unknown_transcript, all_donors, all_acceptors, all_splices,
           map_to_return, valid_splice_patterns, merged_data, pc, k, error>>

\* the variables of process_bam_file
qvars == <<genes, chromosomes, min_exons, min_coverage, map_threshold, bam_reads,
           gene_names, gene_info, reads, progress_counter, files, gene_counts,
           reasons_for_failure, counts, locations, cDNA_locations,
           reverse_exon_index, reverse_exon_first, chexons_result, raised,
           warnings, qpc>>

\* the variables of main
mvars == <<direction, minexons, mincount, both_out, gtf_out, outfile, fasta, bam_files,
           quantitations, outputs, uncaught, mpc>>

vars == <<cvars, flexibility, qvars, mvars>>

(***************************************************************************)
(* Bounds of the model.                                                    *)
(***************************************************************************)
\* the number of samples (BAM files) of a run
MaxBams == 2
\* the number of accepted reads of the gene, over all samples
MaxReads == 2

(***************************************************************************)
(* Python built-ins.                                                       *)
(***************************************************************************)
abs(x) == IF x < 0 THEN -x ELSE x

\* s[0:n] of a str
StrPrefix(s, n) == SubSeq(s, 1, IF Len(s) < n THEN Len(s) ELSE n)

startswith(s, p) == StrPrefix(s, Len(p)) = p

\* the values of a sequence
Range(s) == {s[i] : i \in DOMAIN s}

\* list(a_set) for a set of ints: its elements, each once, in the iteration
\* order of the set, which the interpreter fixes and the language does not.
\* The ascending and the descending order are taken: between them they give
\* both outcomes of a tie between two sites at the same distance from a value.
ListsOf(S) ==
    LET asc == CHOOSE s \in [1..Cardinality(S) -> S] :
                   \A i, j \in DOMAIN s : i < j => s[i] < s[j]
    IN  {asc, [i \in DOMAIN asc |-> asc[Cardinality(S) + 1 - i]]}

\* dict operations on a sequence of records with a field "key"
Keys(d) == [i \in DOMAIN d |-> d[i].key]

HasKey(d, key) == \E i \in DOMAIN d : d[i].key = key

IndexOfKey(d, key) == CHOOSE i \in DOMAIN d : d[i].key = key

Get(d, key) == d[IndexOfKey(d, key)]

\* d[key] = value: an existing key keeps its place, a new key goes last
Put(d, rec) ==
    IF HasKey(d, rec.key)
    THEN [d EXCEPT ![IndexOfKey(d, rec.key)] = rec]
    ELSE Append(d, rec)

\* d.pop(key) for a key of d: the dict without it
Pop(d, key) ==
    LET i == IndexOfKey(d, key)
    IN  SubSeq(d, 1, i - 1) \o SubSeq(d, i + 1, Len(d))

\* the sentinel "no_correction" of the field uncorrected_splice, which holds
\* either the sentinel or a splice pattern (no pattern is empty)
no_correction == <<>>

(***************************************************************************)
(* convert_splice_pattern and the donor/acceptor sets of read_gtf.         *)
(* An exon is <<start, end>>; a transcript lists its exons in the order of *)
(* the GTF lines, exon_number[i] being the exon_number of the i-th line.   *)
(***************************************************************************)
\* list comparison of two exons, as sorted() compares [start, end] lists
ExonLess(a, b) == a[1] < b[1] \/ (a[1] = b[1] /\ a[2] < b[2])

RECURSIVE sorted_exons_asc(_)
sorted_exons_asc(s) ==
    IF s = <<>> THEN <<>>
    ELSE LET done == sorted_exons_asc(SubSeq(s, 1, Len(s) - 1))
             x == s[Len(s)]
             \* x goes after every element that is not greater than it
             n == Cardinality({i \in DOMAIN done : ~ExonLess(x, done[i])})
         IN  SubSeq(done, 1, n) \o <<x>> \o SubSeq(done, n + 1, Len(done))

Reverse(s) == [i \in DOMAIN s |-> s[Len(s) + 1 - i]]

convert_splice_pattern(exon_list, strand) ==
    LET sorted_exons ==
            IF strand = "+"
            THEN sorted_exons_asc(exon_list)
            ELSE Reverse(sorted_exons_asc(
                     [i \in DOMAIN exon_list |->
                         IF exon_list[i][1] < exon_list[i][2]
                         THEN <<exon_list[i][2], exon_list[i][1]>>
                         ELSE exon_list[i]]))
    IN  [i \in DOMAIN sorted_exons |->
            IF i = 1 THEN <<sorted_exons[i][2]>>
            ELSE IF i = Len(sorted_exons) THEN <<sorted_exons[i][1]>>
            ELSE <<sorted_exons[i][1], sorted_exons[i][2]>>]

\* read_gtf: the acceptors a transcript adds to its gene
gtf_splice_acceptors(exons, exon_number, strand) ==
    {(IF strand = "+" THEN exons[i][1] ELSE exons[i][2]) :
        i \in {j \in DOMAIN exons : exon_number[j] > 1}}

\* gtf_splice_donors with the first of the sorted list removed, not the last
gtf_splice_donors_first_popped(exons, strand) ==
    LET side(i) == IF strand = "+" THEN exons[i][2] ELSE exons[i][1]
        values == {side(i) : i \in DOMAIN exons}
        first == IF strand = "+"
                 THEN CHOOSE m \in values : \A x \in values : x >= m
                 ELSE CHOOSE m \in values : \A x \in values : x <= m
    IN  IF Cardinality({i \in DOMAIN exons : side(i) = first}) > 1
        THEN values
        ELSE values \ {first}

\* read_gtf: the donors a transcript adds to its gene: every exon end (start
\* on the reverse strand) but the last of the sorted list, which is popped
gtf_splice_donors(exons, strand) ==
    LET side(i) == IF strand = "+" THEN exons[i][2] ELSE exons[i][1]
        values == {side(i) : i \in DOMAIN exons}
        \* donors.pop() removes the last element of the sorted list
        last == IF strand = "+"
                THEN CHOOSE m \in values : \A x \in values : x <= m
                ELSE CHOOSE m \in values : \A x \in values : x >= m
    IN  \* the list keeps duplicates: a value popped once may still be in it
        IF Cardinality({i \in DOMAIN exons : side(i) = last}) > 1
        THEN values
        ELSE values \ {last}

\* the gene as main() hands it to the collator: read_gtf, read_splice_sites
\* and the conversion of every transcript's exons
GeneModel(transcripts, sites) ==
    [transcripts |->
        [i \in DOMAIN transcripts |->
            [id |-> transcripts[i].id,
             strand |-> transcripts[i].strand,
             exons |-> transcripts[i].exons,
             splice_patterns |->
                convert_splice_pattern(transcripts[i].exons, transcripts[i].strand)]],
     splice_donors |->
        UNION {gtf_splice_donors(transcripts[i].exons, transcripts[i].strand) :
                  i \in DOMAIN transcripts} \cup sites.donors,
     splice_acceptors |->
        UNION {gtf_splice_acceptors(transcripts[i].exons, transcripts[i].exon_number,
                                    transcripts[i].strand) :
                  i \in DOMAIN transcripts} \cup sites.acceptors]

(***************************************************************************)
(* process_bam_file: the per-sample table built from the accepted reads.   *)
(***************************************************************************)
\* one accepted read: gene_counts after lines 645-652
count_read(table, result) ==
    LET splice_boundaries == result.splice_boundaries
        old == IF HasKey(table, splice_boundaries)
               THEN Get(table, splice_boundaries)
               ELSE [key |-> splice_boundaries, count |-> 0, start |-> <<>>, end |-> <<>>]
    IN  Put(table,
            [old EXCEPT !.count = @ + 1,
                        !.start = Append(@, result.start),
                        !.end = Append(@, result.end)])

RECURSIVE gene_counts_of(_)
gene_counts_of(results) ==
    IF results = <<>> THEN <<>>
    ELSE count_read(gene_counts_of(SubSeq(results, 1, Len(results) - 1)), results[Len(results)])

(***************************************************************************)
(* create_splice_name_map.                                                 *)
(***************************************************************************)
\* is_match without the test of line 292: the boundaries the two patterns
\* share are compared, whatever their lengths
is_match_any_length(test_segment, splice_to_test, flex) ==
    \A i \in DOMAIN splice_to_test :
        /\ i \in DOMAIN test_segment
        /\ \A j \in DOMAIN splice_to_test[i] :
               /\ j \in DOMAIN test_segment[i]
               /\ ~(abs(splice_to_test[i][j] - test_segment[i][j]) > flex)

\* lines 292-306: test_segment is a match for splice_to_test
is_match(test_segment, splice_to_test, flex) ==
    /\ Len(test_segment) = Len(splice_to_test)
    /\ \A i \in DOMAIN splice_to_test :
          \A j \in DOMAIN splice_to_test[i] :
              ~(abs(splice_to_test[i][j] - test_segment[i][j]) > flex)

\* found_hit without the break of line 314: the scan runs on and the last
\* match is the one recorded
found_hit_last(valid, splice_to_test, flex) ==
    LET hits == {i \in DOMAIN valid : is_match(valid[i], splice_to_test, flex)}
    IN  IF hits = {} THEN 0 ELSE CHOOSE i \in hits : \A h \in hits : i >= h

\* lines 291-314: the index of the pattern the scan of valid_splice_patterns
\* stops at, 0 when it finds no hit
found_hit(valid, splice_to_test, flex) ==
    LET hits == {i \in DOMAIN valid : is_match(valid[i], splice_to_test, flex)}
    IN  IF hits = {} THEN 0 ELSE CHOOSE i \in hits : \A h \in hits : i <= h

\* min(abs(value - site) for site in sites), for a list that is not empty
mindist(value, sites) ==
    LET dists == {abs(value - sites[i]) : i \in DOMAIN sites}
    IN  CHOOSE d \in dists : \A e \in dists : d <= e

\* sites[[abs(value - site) for site in sites].index(mindist)]
closest_site(value, sites) ==
    LET at == {i \in DOMAIN sites : abs(value - sites[i]) = mindist(value, sites)}
    IN  sites[CHOOSE i \in at : \A h \in at : i <= h]

\* is_close without the upper limit: any site other than the value is close
is_close_unbounded(value, sites, flex) ==
    0 < mindist(value, sites)

\* the test 0 < mindist <= flexibility of lines 326, 333, 341 and 345
is_close(value, sites, flex) ==
    0 < mindist(value, sites) /\ mindist(value, sites) <= flex

\* lines 322-349: tuple(corrected_splice)
corrected_splice_of(splice_to_test, donors, acceptors, flex) ==
    [i \in DOMAIN splice_to_test |->
        IF i = 1
        THEN IF is_close(splice_to_test[i][1], donors, flex)
             THEN <<closest_site(splice_to_test[i][1], donors)>>
             ELSE splice_to_test[i]
        ELSE IF i = Len(splice_to_test)
        THEN IF is_close(splice_to_test[i][1], acceptors, flex)
             THEN <<closest_site(splice_to_test[i][1], acceptors)>>
             ELSE splice_to_test[i]
        ELSE <<IF is_close(splice_to_test[i][1], acceptors, flex)
               THEN closest_site(splice_to_test[i][1], acceptors)
               ELSE splice_to_test[i][1],
               IF is_close(splice_to_test[i][2], donors, flex)
               THEN closest_site(splice_to_test[i][2], donors)
               ELSE splice_to_test[i][2]>>]

\* min() of an empty sequence raises ValueError: the first element consults
\* the donors, every later element the acceptors
correction_raises(splice_to_test, donors, acceptors) ==
    \/ donors = <<>>
    \/ (Len(splice_to_test) > 1 /\ acceptors = <<>>)

(***************************************************************************)
(* collate_splice_variants, one gene.                                      *)
(***************************************************************************)
\* lines 151-164: the table seeded with the transcripts of the annotation
RECURSIVE seeded(_)
seeded(transcripts) ==
    IF transcripts = <<>> THEN <<>>
    ELSE LET sc == seeded(SubSeq(transcripts, 1, Len(transcripts) - 1))
             t == transcripts[Len(transcripts)]
         IN  IF ~HasKey(sc, t.splice_patterns)
             THEN Append(sc, [key |-> t.splice_patterns,
                              transcript_id |-> t.id,
                              count |-> 0,
                              strand |-> t.strand,
                              merged_isoforms |-> {},
                              uncorrected_splice |-> no_correction])
             ELSE Put(sc, [Get(sc, t.splice_patterns) EXCEPT
                              !.transcript_id = t.id \o ":" \o @])

\* the pairs <<bam, position>> in the order of the loops
\* "for bam in bam_files: for splice in data[bam][gene].keys()"
RECURSIVE entries_of(_)
entries_of(d) ==
    IF d = <<>> THEN <<>>
    ELSE entries_of(SubSeq(d, 1, Len(d) - 1))
             \o [i \in DOMAIN d[Len(d)] |-> <<Len(d), i>>]

\* line 201 and line 185: the id of a novel pattern
is_novel(transcript_id) == StrPrefix(transcript_id, 3) = "Var"

variant_id(n) == "Variant" \o ToString(n)

\* sorted_by_count without the sort: the keys in the order of insertion
unsorted(keys, sc) == keys

\* sorted(keys, key = count, reverse = True): stable, descending
RECURSIVE sorted_by_count(_, _)
sorted_by_count(keys, sc) ==
    IF keys = <<>> THEN <<>>
    ELSE LET done == sorted_by_count(SubSeq(keys, 1, Len(keys) - 1), sc)
             x == keys[Len(keys)]
             \* x goes after every key whose count is not smaller
             n == Cardinality({i \in DOMAIN done :
                                  Get(sc, done[i]).count >= Get(sc, x).count})
         IN  SubSeq(done, 1, n) \o <<x>> \o SubSeq(done, n + 1, Len(done))

\* all_splices without the split of lines 197-204: one sort of all the keys
all_splices_unpartitioned(sc) ==
    sorted_by_count(Keys(sc), sc)

\* lines 197-214: known_splices_sorted + novel_splices_sorted
all_splices_of(sc) ==
    LET known_splices == SelectSeq(Keys(sc), LAMBDA s : ~is_novel(Get(sc, s).transcript_id))
        novel_splices == SelectSeq(Keys(sc), LAMBDA s : is_novel(Get(sc, s).transcript_id))
    IN  sorted_by_count(known_splices, sc) \o sorted_by_count(novel_splices, sc)

\* folded with assignments in place of += and extend
folded_overwritten(bucket, observed) ==
    [bucket EXCEPT !.count = observed.count,
                   !.start = observed.start,
                   !.end = observed.end]

\* lines 250-252: a bucket after the counts of one input pattern are folded in
folded(bucket, observed) ==
    [bucket EXCEPT !.count = @ + observed.count,
                   !.start = @ \o observed.start,
                   !.end = @ \o observed.end]

\* lines 122-168
Seed ==
    /\ pc = "seed"
    /\ unknown_transcript' = 1
    /\ splice_counts' = seeded(genes_transcripts_exons.transcripts)
    /\ all_donors' \in ListsOf(genes_transcripts_exons.splice_donors)
    /\ all_acceptors' \in ListsOf(genes_transcripts_exons.splice_acceptors)
    /\ merged_data' = [b \in DOMAIN data |-> <<>>]
    /\ pc' = "observe"
    /\ k' = 1
    /\ UNCHANGED <<qvars, mvars>>
    /\ UNCHANGED <<genes_transcripts_exons, data, flexibility, all_splices,
                   map_to_return, valid_splice_patterns, error>>

\* observe with line 191 outside the test of line 183: the counter moves on
\* at every observed pattern
observe_counting_all(sc, counter, observed) ==
    LET is_new == ~HasKey(sc, observed.key)
        sc1 == IF is_new
               THEN Append(sc, [key |-> observed.key,
                                transcript_id |-> variant_id(counter),
                                count |-> 0,
                                strand |-> "tbc",
                                merged_isoforms |-> {},
                                uncorrected_splice |-> no_correction])
               ELSE sc
    IN  [splice_counts |->
            Put(sc1, [Get(sc1, observed.key) EXCEPT !.count = @ + observed.count]),
         unknown_transcript |-> counter + 1]

\* lines 183-192: the table and the counter after one observed pattern
observe(sc, counter, observed) ==
    LET is_new == ~HasKey(sc, observed.key)
        sc1 == IF is_new
               THEN Append(sc, [key |-> observed.key,
                                transcript_id |-> variant_id(counter),
                                count |-> 0,
                                strand |-> "tbc",
                                merged_isoforms |-> {},
                                uncorrected_splice |-> no_correction])
               ELSE sc
    IN  [splice_counts |->
            Put(sc1, [Get(sc1, observed.key) EXCEPT !.count = @ + observed.count]),
         unknown_transcript |-> IF is_new THEN counter + 1 ELSE counter]

\* lines 181-192, one pattern of one sample
Observe ==
    /\ pc = "observe"
    /\ k <= Len(entries_of(data))
    /\ LET e == entries_of(data)[k]
           after == observe(splice_counts, unknown_transcript, data[e[1]][e[2]])
       IN  /\ splice_counts' = after.splice_counts
           /\ unknown_transcript' = after.unknown_transcript
    /\ k' = k + 1
    /\ UNCHANGED <<qvars, mvars>>
    /\ UNCHANGED <<genes_transcripts_exons, data, flexibility, all_donors,
                   all_acceptors, all_splices, map_to_return,
                   valid_splice_patterns, merged_data, pc, error>>

\* lines 197-214 and 275-279
Sort ==
    /\ pc = "observe"
    /\ k > Len(entries_of(data))
    /\ all_splices' = all_splices_of(splice_counts)
    /\ map_to_return' = <<>>
    /\ valid_splice_patterns' = <<>>
    /\ pc' = "map"
    /\ k' = 1
    /\ UNCHANGED <<qvars, mvars>>
    /\ UNCHANGED <<genes_transcripts_exons, data, flexibility, splice_counts,
                   unknown_transcript, all_donors, all_acceptors, merged_data, error>>

\* lines 281-356, one candidate
MapStep ==
    /\ pc = "map"
    /\ k <= Len(all_splices)
    /\ LET splice_to_test == all_splices[k]
           hit == found_hit(valid_splice_patterns, splice_to_test, flexibility)
           corrected_splice ==
               corrected_splice_of(splice_to_test, all_donors, all_acceptors, flexibility)
       IN  IF hit # 0
           THEN /\ map_to_return' =
                       Put(map_to_return, [key |-> splice_to_test,
                                           splice |-> valid_splice_patterns[hit],
                                           updated |-> FALSE])
                /\ k' = k + 1
                /\ UNCHANGED <<valid_splice_patterns, pc, error>>
           ELSE IF correction_raises(splice_to_test, all_donors, all_acceptors)
           THEN /\ pc' = "failed"
                /\ error' = "ValueError"
                /\ UNCHANGED <<map_to_return, valid_splice_patterns, k>>
           ELSE /\ map_to_return' =
                       Put(map_to_return, [key |-> splice_to_test,
                                           splice |-> corrected_splice,
                                           updated |-> corrected_splice # splice_to_test])
                /\ valid_splice_patterns' = Append(valid_splice_patterns, corrected_splice)
                /\ k' = k + 1
                /\ UNCHANGED <<pc, error>>
    /\ UNCHANGED <<qvars, mvars>>
    /\ UNCHANGED <<genes_transcripts_exons, data, flexibility, splice_counts,
                   unknown_transcript, all_donors, all_acceptors, all_splices,
                   merged_data>>

\* line 361 and line 228: the map is returned and the fold begins
StartFold ==
    /\ pc = "map"
    /\ k > Len(all_splices)
    /\ pc' = "fold"
    /\ k' = 1
    /\ UNCHANGED <<qvars, mvars>>
    /\ UNCHANGED <<genes_transcripts_exons, data, flexibility, splice_counts,
                   unknown_transcript, all_donors, all_acceptors, all_splices,
                   map_to_return, valid_splice_patterns, merged_data, error>>

\* lines 235-252, one pattern of one sample
FoldStep ==
    /\ pc = "fold"
    /\ k <= Len(entries_of(data))
    /\ LET e == entries_of(data)[k]
           bam == e[1]
           observed == data[bam][e[2]]
           splice == observed.key
           used_splice == Get(map_to_return, splice).splice
           \* lines 238-239
           md0 == IF ~HasKey(merged_data[bam], used_splice)
                  THEN Append(merged_data[bam],
                              [key |-> used_splice, count |-> 0, start |-> <<>>,
                               end |-> <<>>, merged_isoforms |-> <<>>])
                  ELSE merged_data[bam]
           rekeyed == used_splice # splice /\ Get(map_to_return, splice).updated
           merges == used_splice # splice /\ ~Get(map_to_return, splice).updated
           \* line 243 pops a key, lines 241, 246 and 249 look one up
           key_error ==
               \/ ~HasKey(splice_counts, splice)
               \/ /\ merges
                  /\ startswith(Get(splice_counts, splice).transcript_id, "ENSMUST")
                  /\ ~HasKey(splice_counts, used_splice)
           \* lines 240-249
           sc == IF rekeyed
                 THEN Put(Pop(splice_counts, splice),
                          [Get(splice_counts, splice) EXCEPT
                              !.key = used_splice, !.uncorrected_splice = splice])
                 ELSE LET sc1 == Put(splice_counts,
                                     [Get(splice_counts, splice) EXCEPT
                                         !.uncorrected_splice = no_correction])
                      IN  IF merges /\ startswith(Get(sc1, splice).transcript_id, "ENSMUST")
                          THEN Put(sc1, [Get(sc1, used_splice) EXCEPT
                                            !.merged_isoforms =
                                                @ \cup {Get(sc1, splice).transcript_id}])
                          ELSE sc1
           \* line 248
           md1 == IF merges /\ startswith(Get(splice_counts, splice).transcript_id, "ENSMUST")
                  THEN Put(md0, [Get(md0, used_splice) EXCEPT
                                    !.merged_isoforms =
                                        Append(@, Get(splice_counts, splice).transcript_id)])
                  ELSE md0
       IN  IF key_error
           THEN /\ pc' = "failed"
                /\ error' = "KeyError"
                \* what the call did before the lookup that failed
                /\ merged_data' = [merged_data EXCEPT
                                      ![bam] = IF HasKey(splice_counts, splice)
                                               THEN md1 ELSE md0]
                /\ splice_counts' = IF HasKey(splice_counts, splice)
                                    THEN Put(splice_counts,
                                             [Get(splice_counts, splice) EXCEPT
                                                 !.uncorrected_splice = no_correction])
                                    ELSE splice_counts
                /\ UNCHANGED k
           ELSE /\ splice_counts' = sc
                /\ merged_data' =
                       [merged_data EXCEPT
                           ![bam] = Put(md1, folded(Get(md1, used_splice), observed))]
                /\ k' = k + 1
                /\ UNCHANGED <<pc, error>>
    /\ UNCHANGED <<qvars, mvars>>
    /\ UNCHANGED <<genes_transcripts_exons, data, flexibility, unknown_transcript,
                   all_donors, all_acceptors, all_splices, map_to_return,
                   valid_splice_patterns>>

\* line 255
Return ==
    /\ pc = "fold"
    /\ k > Len(entries_of(data))
    /\ pc' = "done"
    /\ UNCHANGED <<qvars, mvars>>
    /\ UNCHANGED <<genes_transcripts_exons, data, flexibility, splice_counts,
                   unknown_transcript, all_donors, all_acceptors, all_splices,
                   map_to_return, valid_splice_patterns, merged_data, k, error>>

Next == Seed \/ Observe \/ Sort \/ MapStep \/ StartFold \/ FoldStep \/ Return

(***************************************************************************)
(* The inputs of a run.                                                    *)
(***************************************************************************)
\* transcripts of the annotation, as read_gtf collects their exon lines
Ta == [id |-> "ENSMUST1", strand |-> "+",
       exons |-> << <<50, 100>>, <<200, 250>> >>, exon_number |-> <<1, 2>>]
Tb == [id |-> "ENSMUST2", strand |-> "+",
       exons |-> << <<50, 103>>, <<200, 250>> >>, exon_number |-> <<1, 2>>]
Tc == [id |-> "ENSMUST3", strand |-> "+",
       exons |-> << <<50, 100>>, <<150, 160>>, <<200, 250>> >>,
       exon_number |-> <<1, 2, 3>>]
Td == [id |-> "ENSMUST4", strand |-> "+",
       exons |-> << <<150, 160>>, <<200, 250>>, <<50, 100>> >>,
       exon_number |-> <<2, 3, 1>>]
Ts == [id |-> "ENSMUST5", strand |-> "+",
       exons |-> << <<50, 100>> >>, exon_number |-> <<1>>]

\* the transcripts of the gene, in the order read_gtf leaves them in
Annotations == {<<Ta, Tb>>, <<Tc, Td>>, <<Ts>>}

\* the sites read_splice_sites adds to the gene
KnownSites == {[donors |-> {}, acceptors |-> {}],
               [donors |-> {101}, acceptors |-> {151, 201}]}

Flexibilities == {0, 2, 1000}

\* the splice patterns get_chexons_segment_string returns for the reads
ReadPatterns ==
    {<< <<100>>, <<200>> >>,
     << <<102>>, <<200>> >>,
     << <<103>>, <<200>> >>,
     << <<100>>, <<151, 162>>, <<200>> >>}

\* the accepted reads of the gene: the sample and the pattern of each, the
\* reads of a sample together, samples in input order
ReadLists(nbams, patterns) ==
    UNION {{r \in [1..n -> (1..nbams) \X patterns] :
               \A i \in 1..(n - 1) : r[i][1] <= r[i + 1][1]} : n \in 0..MaxReads}

\* the chexons results of the reads of one sample; the j-th read of the run
\* starts at 10 + j and ends at 300 + j
results_of(read_list, bam) ==
    LET tagged == [j \in DOMAIN read_list |->
                      [bam |-> read_list[j][1],
                       splice_boundaries |-> read_list[j][2],
                       start |-> 10 + j,
                       end |-> 300 + j]]
    IN  SelectSeq(tagged, LAMBDA r : r.bam = bam)

\* process_bam_file is not running
ReadsIdle ==
    /\ genes = <<>>
    /\ chromosomes = {}
    /\ min_exons = 2
    /\ min_coverage = 10
    /\ map_threshold = 10
    /\ bam_reads = <<>>
    /\ gene_names = <<>>
    /\ gene_info = [ids |-> <<>>]
    /\ reads = <<>>
    /\ progress_counter = 0
    /\ files = {}
    /\ gene_counts = <<>>
    /\ reasons_for_failure = <<>>
    /\ counts = <<>>
    /\ locations = <<>>
    /\ cDNA_locations = <<>>
    /\ reverse_exon_index = 0
    /\ reverse_exon_first = FALSE
    /\ chexons_result = [type |-> "none"]
    /\ raised = "none"
    /\ warnings = 0
    /\ qpc = "idle"

\* main is not running: the options have their defaults
MainIdle ==
    /\ direction = "none"
    /\ minexons = 2
    /\ mincount = 2
    /\ both_out = FALSE
    /\ gtf_out = FALSE
    /\ outfile = "nexons_output.txt"
    /\ fasta = <<>>
    /\ bam_files = 0
    /\ quantitations = <<>>
    /\ outputs = {}
    /\ uncaught = "none"
    /\ mpc = "idle"

InitCollate ==
    /\ splice_counts = <<>>
    /\ unknown_transcript = 1
    /\ all_donors = <<>>
    /\ all_acceptors = <<>>
    /\ all_splices = <<>>
    /\ map_to_return = <<>>
    /\ valid_splice_patterns = <<>>
    /\ merged_data = <<>>
    /\ pc = "seed"
    /\ k = 1
    /\ error = "none"
    /\ ReadsIdle
    /\ MainIdle

Init ==
    /\ \E transcripts \in Annotations, sites \in KnownSites :
          genes_transcripts_exons = GeneModel(transcripts, sites)
    /\ flexibility \in Flexibilities
    /\ \E nbams \in 1..MaxBams :
          \E read_list \in ReadLists(nbams, ReadPatterns) :
              data = [b \in 1..nbams |-> gene_counts_of(results_of(read_list, b))]
    /\ InitCollate

Spec == Init /\ [][Next]_vars

(***************************************************************************)
(* One sample with ten reads of two patterns one base apart.               *)
(***************************************************************************)
\* the pattern P of the seven reads
PatternP == << <<100>>, <<200>> >>

\* the patterns of P's length that differ from P by one base at one boundary
NearP ==
    {<< <<99>>, <<200>> >>, << <<101>>, <<200>> >>,
     << <<100>>, <<199>> >>, << <<100>>, <<201>> >>}

\* transcripts of the gene: one one base from P, one with no site near P
Tq == [id |-> "ENSMUST6", strand |-> "+",
       exons |-> << <<50, 101>>, <<200, 250>> >>, exon_number |-> <<1, 2>>]
Tf == [id |-> "ENSMUST7", strand |-> "+",
       exons |-> << <<50, 90>>, <<150, 160>>, <<210, 250>> >>,
       exon_number |-> <<1, 2, 3>>]

\* P annotated (alone, or after a transcript one base from it) or not
AnnotationsNearP == {<<Ta>>, <<Tq, Ta>>, <<Tc>>, <<Tf>>}

KnownSitesNearP ==
    {[donors |-> d, acceptors |-> a] : d \in SUBSET {95, 99}, a \in SUBSET {204}}

\* n reads of the pattern
ReadsOf(pattern, n) == [i \in 1..n |-> <<1, pattern>>]

InitTenReads ==
    /\ \E transcripts \in AnnotationsNearP, sites \in KnownSitesNearP :
          genes_transcripts_exons = GeneModel(transcripts, sites)
    /\ flexibility = 5
    /\ \E near \in NearP :
          \E read_list \in {ReadsOf(PatternP, 7) \o ReadsOf(near, 3),
                        ReadsOf(near, 3) \o ReadsOf(PatternP, 7)} :
              data = <<gene_counts_of(results_of(read_list, 1))>>
    /\ InitCollate

SpecTenReads == InitTenReads /\ [][Next]_vars

(***************************************************************************)
(* A gene with two annotated transcripts three bases apart at one boundary. *)
(***************************************************************************)
Te == [id |-> "ENSMUST2", strand |-> "+",
       exons |-> << <<50, 100>>, <<203, 250>> >>, exon_number |-> <<1, 2>>]
Tg == [id |-> "ENST1", strand |-> "+",
       exons |-> << <<50, 100>>, <<200, 250>> >>, exon_number |-> <<1, 2>>]
Th == [id |-> "ENST2", strand |-> "+",
       exons |-> << <<50, 100>>, <<203, 250>> >>, exon_number |-> <<1, 2>>]

AnnotationsThreeApart == {<<Ta, Te>>, <<Te, Ta>>, <<Tg, Th>>}

\* the two reference patterns and a pattern no transcript has
ReadPatternsThreeApart ==
    {<< <<100>>, <<200>> >>, << <<100>>, <<203>> >>, << <<100>>, <<206>> >>}

InitThreeApart ==
    /\ \E transcripts \in AnnotationsThreeApart, sites \in KnownSites :
          genes_transcripts_exons = GeneModel(transcripts, sites)
    /\ flexibility \in {2, 5}
    /\ \E nbams \in 1..MaxBams :
          \E read_list \in ReadLists(nbams, ReadPatternsThreeApart) :
              data = [b \in 1..nbams |-> gene_counts_of(results_of(read_list, b))]
    /\ InitCollate

SpecThreeApart == InitThreeApart /\ [][Next]_vars

(***************************************************************************)
(* process_bam_file and get_chexons_segment_string.                        *)
(* A read is its sequence and the .dat file chexons writes for it; the     *)
(* lines of the file are records: a rule of dashes, the header that starts *)
(* with Seg, a data line with its read-local (cdna) and gene-local         *)
(* (genomic) start and end, or a data line whose numbers int() rejects.    *)
(***************************************************************************)
RECURSIVE str_count(_, _, _)
\* s.count(sub) from the 1-based position i on: occurrences that do not overlap
str_count(s, sub, i) ==
    IF i + Len(sub) - 1 > Len(s) THEN 0
    ELSE IF SubSeq(s, i, i + Len(sub) - 1) = sub
         THEN 1 + str_count(s, sub, i + Len(sub))
         ELSE str_count(s, sub, i + 1)

\* s[a:b] for a, b >= 0
str_slice(s, a, b) ==
    LET hi == IF b < Len(s) THEN b ELSE Len(s)
    IN  IF a >= hi THEN "" ELSE SubSeq(s, a + 1, hi)

RECURSIVE str_split(_, _)
\* s.split(sep) for a separator of one character
str_split(s, sep) ==
    IF \A i \in 1..Len(s) : SubSeq(s, i, i) # sep THEN <<s>>
    ELSE LET i == CHOOSE h \in 1..Len(s) :
                      /\ SubSeq(s, h, h) = sep
                      /\ \A g \in 1..(h - 1) : SubSeq(s, g, g) # sep
         IN  <<str_slice(s, 0, i - 1)>> \o str_split(str_slice(s, i, Len(s)), sep)

RECURSIVE str_join(_, _)
\* sep.join(list)
str_join(list, sep) ==
    IF list = <<>> THEN ""
    ELSE IF Len(list) = 1 THEN list[1]
    ELSE list[1] \o sep \o str_join(Tail(list), sep)

\* min() and max() of a set of ints
Min(S) == CHOOSE x \in S : \A y \in S : x <= y
Max(S) == CHOOSE x \in S : \A y \in S : x >= y

\* the orders in which a for loop can visit the elements of a set
Orders(S) ==
    {s \in [1..Cardinality(S) -> S] : \A i, j \in DOMAIN s : i # j => s[i] # s[j]}

\* line 563: the entry of gene_names for a gene
gene_name_of(g) == g.name \o "_" \o g.chrom \o "_" \o g.strand

\* lines 571-596: gene_info for an entry of gene_names; the genes collected
\* are those of line 591
gene_info_of(gene_chr_joined, all_genes) ==
    LET gene_chr == str_split(gene_chr_joined, "_")
        gene == SelectSeq(all_genes, LAMBDA g : g.name = gene_chr[1] /\ g.chrom = gene_chr[2])
    IN  [name |-> gene_chr[1],
         chrom |-> gene_chr[2],
         strand |-> gene_chr[3],
         ids |-> [i \in DOMAIN gene |-> gene[i].id],
         start |-> Min({gene[i].start : i \in DOMAIN gene}),
         end |-> Max({gene[i].end : i \in DOMAIN gene}),
         splice_acceptors |-> UNION {gene[i].splice_acceptors : i \in DOMAIN gene}]

\* an except clause for the failure of the aligner process alone
is_CalledProcessError(exception) == exception = "CalledProcessError"

\* except Exception (line 661): the exceptions the clause catches
is_Exception(exception) ==
    exception \in {"CalledProcessError", "FileNotFoundError", "ValueError"}

\* lines 739-777 for one data line
parse_data_line(st, line, strand, position_offset) ==
    LET count == st.count + 1
        start == line.genomic[1] + position_offset - 1
        end == line.genomic[2] + position_offset - 1
        last == st.locations[Len(st.locations)]
        first == IF count = 1
                 THEN IF strand = "+" THEN start > end ELSE start < end
                 ELSE IF count = 2
                 THEN IF strand = "+" THEN start < last[2] ELSE start > last[2]
                 ELSE FALSE
        index == IF count = 2
                 THEN IF (IF strand = "+" THEN start > end ELSE start < end)
                      THEN count ELSE st.reverse_exon_index
                 ELSE IF count > 2 /\ st.reverse_exon_index = 0
                 THEN IF (IF strand = "+"
                          THEN start < last[2] \/ start > end
                          ELSE start > last[2] \/ start < end)
                      THEN count ELSE st.reverse_exon_index
                 ELSE st.reverse_exon_index
    IN  [st EXCEPT !.count = count,
                   !.reverse_exon_first = @ \/ first,
                   !.reverse_exon_index = index,
                   !.locations = Append(@, <<start, end>>),
                   !.cDNA_locations = Append(@, line.cdna)]

RECURSIVE parse_dat(_, _, _, _)
\* lines 703-777: the loop over the lines of the .dat file, from the state
\* st on; int() of a bad number raises ValueError and ends the loop
parse_dat(st, lines, strand, position_offset) ==
    IF lines = <<>> \/ st.raised # "none" THEN st
    ELSE LET line == lines[1]
             next == IF line.kind = "rule" THEN st
                     ELSE IF line.kind = "Seg" THEN [st EXCEPT !.count = 0]
                     ELSE IF line.kind = "bad" THEN [st EXCEPT !.raised = "ValueError"]
                     ELSE parse_data_line(st, line, strand, position_offset)
         IN  parse_dat(next, Tail(lines), strand, position_offset)

\* lines 703-713: the state before the first line
parse_start ==
    [count |-> 0, locations |-> <<>>, cDNA_locations |-> <<>>,
     reverse_exon_index |-> 0, reverse_exon_first |-> FALSE, raised |-> "none"]

\* near_acceptor that no acceptor satisfies
near_acceptor_never(locs, acceptors, flex) == FALSE

\* line 798: the last segment starts within flexibility of a known acceptor
near_acceptor(locs, acceptors, flex) ==
    \E acceptor \in acceptors : abs(acceptor - locs[Len(locs)][1]) <= flex

\* lines 801-802: the 4-mers counted are more than 0.15 of the length
repeat_rich(exon_seq) ==
    20 * (str_count(exon_seq, "AAAA", 1) + str_count(exon_seq, "TTTT", 1)
          + str_count(exon_seq, "ACAC", 1) + str_count(exon_seq, "GTGT", 1))
        > 3 * Len(exon_seq)

\* splice_boundaries_of with both boundaries of the first segment
splice_boundaries_both_ends(locs) ==
    [i \in DOMAIN locs |->
        IF i = Len(locs) THEN <<locs[i][1]>>
        ELSE <<locs[i][1], locs[i][2]>>]

\* lines 853-861
splice_boundaries_of(locs) ==
    [i \in DOMAIN locs |->
        IF i = 1 THEN <<locs[i][2]>>
        ELSE IF i = Len(locs) THEN <<locs[i][1]>>
        ELSE <<locs[i][1], locs[i][2]>>]

\* the three branches of lines 814-824 tested in the order middle, first, last
reverse_splicing_middle_first(locs, index, first) ==
    IF 0 < index /\ index <= Len(locs)
    THEN "FAIL: Reverse splicing or mapping (middle/>1 exon)"
    ELSE IF first /\ (index = 0 \/ index > Len(locs))
    THEN "FAIL: Reverse splicing or mapping (first exon)"
    ELSE IF index = Len(locs) /\ ~first
    THEN "FAIL: Reverse splicing or mapping (last exon)"
    ELSE ""

\* lines 814-824: the reason for the rejection, or "" when none applies
reverse_splicing(locs, index, first) ==
    IF index = Len(locs) /\ ~first
    THEN "FAIL: Reverse splicing or mapping (last exon)"
    ELSE IF first /\ (index = 0 \/ index > Len(locs))
    THEN "FAIL: Reverse splicing or mapping (first exon)"
    ELSE IF 0 < index /\ index <= Len(locs)
    THEN "FAIL: Reverse splicing or mapping (middle/>1 exon)"
    ELSE ""

\* result_of with the two coverages tested before the number of exons
result_of_coverage_first(locs, cdna, index, first, full_sequence_length, info, least_exons, mincov, mapthr) ==
    LET reason == reverse_splicing(locs, index, first)
        failed(message) == [type |-> "str", value |-> message]
    IN  IF reason # "" THEN failed(reason)
        ELSE IF /\ Len(locs) > 0
                /\ 100 * (cdna[Len(cdna)][2] - cdna[1][1]) < mapthr * full_sequence_length
        THEN failed("FAIL: Transcript coverage too low")
        ELSE IF /\ Len(locs) > 0
                /\ 100 * abs(locs[1][1] - locs[Len(locs)][2])
                       < mincov * abs(info.end - info.start)
        THEN failed("FAIL: Gene coverage too low")
        ELSE IF Len(locs) < least_exons THEN failed("FAIL: Not enough exons")
        ELSE [type |-> "dict",
              start |-> locs[1][1],
              end |-> locs[Len(locs)][2],
              splice_boundaries |-> splice_boundaries_of(locs)]

\* lines 814-870: what get_chexons_segment_string returns after the trimming;
\* the thresholds are in percent
result_of(locs, cdna, index, first, full_sequence_length, info, least_exons, mincov, mapthr) ==
    LET reason == reverse_splicing(locs, index, first)
        failed(message) == [type |-> "str", value |-> message]
    IN  IF reason # "" THEN failed(reason)
        ELSE IF Len(locs) < least_exons THEN failed("FAIL: Not enough exons")
        ELSE IF 100 * (cdna[Len(cdna)][2] - cdna[1][1]) < mapthr * full_sequence_length
        THEN failed("FAIL: Transcript coverage too low")
        ELSE IF 100 * abs(locs[1][1] - locs[Len(locs)][2])
                    < mincov * abs(info.end - info.start)
        THEN failed("FAIL: Gene coverage too low")
        ELSE [type |-> "dict",
              start |-> locs[1][1],
              end |-> locs[Len(locs)][2],
              splice_boundaries |-> splice_boundaries_of(locs)]

\* lines 656-659: the tally after one more rejection with the message
tally(reasons, message) ==
    IF HasKey(reasons, message)
    THEN Put(reasons, [Get(reasons, message) EXCEPT !.count = @ + 1])
    ELSE Put(reasons, [key |-> message, count |-> 1])

\* the scratch files: the gene's sequence file, the read file and the two
\* files chexons writes next to it
fasta_file == "gene.fa"
read_file == "read.fa"
comp_file == "read.fa.comp"
dat_file == "read.fa.dat"

\* the read the loop of line 626 is at
sequence == reads[progress_counter].sequence

\* lines 550-565: the names of the logical genes, in the order of the loop
EnterLoop ==
    /\ qpc = "start"
    /\ counts' = <<>>
    /\ gene_names' \in Orders({gene_name_of(genes[i]) : i \in DOMAIN genes})
    /\ qpc' = "genes"
    /\ UNCHANGED <<genes, chromosomes, min_exons, min_coverage, map_threshold,
                   bam_reads, gene_info, reads, progress_counter, files,
                   gene_counts, reasons_for_failure, locations, cDNA_locations,
                   reverse_exon_index, reverse_exon_first, chexons_result,
                   raised, warnings>>
    /\ UNCHANGED <<cvars, flexibility, mvars>>

\* lines 565-587: a gene on a chromosome without sequence is skipped
SkipGene ==
    /\ qpc = "genes"
    /\ gene_names # <<>>
    /\ str_split(gene_names[1], "_")[2] \notin chromosomes
    /\ gene_names' = Tail(gene_names)
    /\ UNCHANGED <<genes, chromosomes, min_exons, min_coverage, map_threshold,
                   bam_reads, gene_info, reads, progress_counter, files,
                   gene_counts, reasons_for_failure, counts, locations,
                   cDNA_locations, reverse_exon_index, reverse_exon_first,
                   chexons_result, raised, warnings, qpc>>
    /\ UNCHANGED <<cvars, flexibility, mvars>>

\* lines 565-624: the gene's sequence file is written and its reads are read
StartGene ==
    /\ qpc = "genes"
    /\ gene_names # <<>>
    /\ str_split(gene_names[1], "_")[2] \in chromosomes
    /\ gene_info' = gene_info_of(gene_names[1], genes)
    /\ files' = files \cup {fasta_file}
    /\ gene_counts' = <<>>
    /\ reads' = bam_reads
    /\ progress_counter' = 0
    /\ reasons_for_failure' = <<>>
    /\ qpc' = "reads"
    /\ UNCHANGED <<genes, chromosomes, min_exons, min_coverage, map_threshold,
                   bam_reads, gene_names, counts, locations, cDNA_locations,
                   reverse_exon_index, reverse_exon_first, chexons_result,
                   raised, warnings>>
    /\ UNCHANGED <<cvars, flexibility, mvars>>

\* lines 626-687: the next read is written to its file
WriteReadFile ==
    /\ qpc = "reads"
    /\ progress_counter < Len(reads)
    /\ progress_counter' = progress_counter + 1
    /\ files' = files \cup {read_file}
    /\ qpc' = "chexons"
    /\ UNCHANGED <<genes, chromosomes, min_exons, min_coverage, map_threshold,
                   bam_reads, gene_names, gene_info, reads, gene_counts,
                   reasons_for_failure, counts, locations, cDNA_locations,
                   reverse_exon_index, reverse_exon_first, chexons_result,
                   raised, warnings>>
    /\ UNCHANGED <<cvars, flexibility, mvars>>

\* lines 692 and 701: chexons succeeds, its .comp file is removed
ChexonsRuns ==
    /\ qpc = "chexons"
    /\ files' = (files \cup {comp_file, dat_file}) \ {comp_file}
    /\ qpc' = "parse"
    /\ UNCHANGED <<genes, chromosomes, min_exons, min_coverage, map_threshold,
                   bam_reads, gene_names, gene_info, reads, progress_counter,
                   gene_counts, reasons_for_failure, counts, locations,
                   cDNA_locations, reverse_exon_index, reverse_exon_first,
                   chexons_result, raised, warnings>>
    /\ UNCHANGED <<cvars, flexibility, mvars>>

\* lines 692-698: chexons fails after it has written the files of made; the
\* handler unlinks .comp, .dat and the read file in this order, and an unlink
\* of a file that does not exist raises and ends the handler
ChexonsFails ==
    /\ qpc = "chexons"
    /\ \E made \in SUBSET {comp_file, dat_file} :
          IF comp_file \notin made
          THEN /\ files' = files \cup made
               /\ raised' = "FileNotFoundError"
          ELSE IF dat_file \notin made
          THEN /\ files' = files
               /\ raised' = "FileNotFoundError"
          ELSE /\ files' = files \ {read_file}
               /\ raised' = "CalledProcessError"
    /\ qpc' = "except"
    /\ UNCHANGED <<genes, chromosomes, min_exons, min_coverage, map_threshold,
                   bam_reads, gene_names, gene_info, reads, progress_counter,
                   gene_counts, reasons_for_failure, counts, locations,
                   cDNA_locations, reverse_exon_index, reverse_exon_first,
                   chexons_result, warnings>>
    /\ UNCHANGED <<cvars, flexibility, mvars>>

\* the .dat file of the read, parsed
parsed ==
    parse_dat(parse_start, reads[progress_counter].dat, gene_info.strand,
              gene_info.start - 5000)

\* lines 703-782: the .dat file is parsed, then it and the read file are removed
ParseDat ==
    /\ qpc = "parse"
    /\ parsed.raised = "none"
    /\ locations' = parsed.locations
    /\ cDNA_locations' = parsed.cDNA_locations
    /\ reverse_exon_index' = parsed.reverse_exon_index
    /\ reverse_exon_first' = parsed.reverse_exon_first
    /\ files' = files \ {dat_file, read_file}
    /\ qpc' = "trim"
    /\ UNCHANGED <<genes, chromosomes, min_exons, min_coverage, map_threshold,
                   bam_reads, gene_names, gene_info, reads, progress_counter,
                   gene_counts, reasons_for_failure, counts, chexons_result,
                   raised, warnings>>
    /\ UNCHANGED <<cvars, flexibility, mvars>>

\* lines 711-777: a line of the .dat file raises, the files stay
ParseDatRaises ==
    /\ qpc = "parse"
    /\ parsed.raised # "none"
    /\ raised' = parsed.raised
    /\ qpc' = "except"
    /\ UNCHANGED <<genes, chromosomes, min_exons, min_coverage, map_threshold,
                   bam_reads, gene_names, gene_info, reads, progress_counter,
                   files, gene_counts, reasons_for_failure, counts, locations,
                   cDNA_locations, reverse_exon_index, reverse_exon_first,
                   chexons_result, warnings>>
    /\ UNCHANGED <<cvars, flexibility, mvars>>

\* lines 797-810: one turn of the polyA loop: the last segment is kept, which
\* ends the loop, or it is dropped
TrimStep ==
    /\ qpc = "trim"
    /\ Len(locations) > 0
    /\ LET last == cDNA_locations[Len(cDNA_locations)]
           exon_seq == str_slice(sequence, last[1], last[2])
       IN  IF near_acceptor(locations, gene_info.splice_acceptors, flexibility)
           THEN /\ qpc' = "classify"
                /\ UNCHANGED <<locations, cDNA_locations>>
           ELSE IF repeat_rich(exon_seq)
           THEN /\ locations' = SubSeq(locations, 1, Len(locations) - 1)
                /\ cDNA_locations' = SubSeq(cDNA_locations, 1, Len(cDNA_locations) - 1)
                /\ UNCHANGED qpc
           ELSE /\ qpc' = "classify"
                /\ UNCHANGED <<locations, cDNA_locations>>
    /\ UNCHANGED <<genes, chromosomes, min_exons, min_coverage, map_threshold,
                   bam_reads, gene_names, gene_info, reads, progress_counter,
                   files, gene_counts, reasons_for_failure, counts,
                   reverse_exon_index, reverse_exon_first, chexons_result,
                   raised, warnings>>
    /\ UNCHANGED <<cvars, flexibility, mvars>>

\* lines 814-870: the loop has ended, the read is rejected or its pattern returned
Classify ==
    /\ \/ qpc = "classify"
       \/ qpc = "trim" /\ Len(locations) = 0
    /\ chexons_result' =
           result_of(locations, cDNA_locations, reverse_exon_index,
                     reverse_exon_first, Len(sequence), gene_info, min_exons,
                     min_coverage, map_threshold)
    /\ qpc' = "returned"
    /\ UNCHANGED <<genes, chromosomes, min_exons, min_coverage, map_threshold,
                   bam_reads, gene_names, gene_info, reads, progress_counter,
                   files, gene_counts, reasons_for_failure, counts, locations,
                   cDNA_locations, reverse_exon_index, reverse_exon_first,
                   raised, warnings>>
    /\ UNCHANGED <<cvars, flexibility, mvars>>

\* lines 645-659: a pattern is counted, a rejection is tallied
CountResult ==
    /\ qpc = "returned"
    /\ IF chexons_result.type = "dict"
       THEN /\ gene_counts' = count_read(gene_counts, chexons_result)
            /\ UNCHANGED reasons_for_failure
       ELSE /\ reasons_for_failure' = tally(reasons_for_failure, chexons_result.value)
            /\ UNCHANGED gene_counts
    /\ qpc' = "reads"
    /\ UNCHANGED <<genes, chromosomes, min_exons, min_coverage, map_threshold,
                   bam_reads, gene_names, gene_info, reads, progress_counter,
                   files, counts, locations, cDNA_locations, reverse_exon_index,
                   reverse_exon_first, chexons_result, raised, warnings>>
    /\ UNCHANGED <<cvars, flexibility, mvars>>

\* lines 661-662: the exception of the read is caught and a warning written;
\* an exception the clause does not catch leaves process_bam_file
CatchException ==
    /\ qpc = "except"
    /\ IF is_Exception(raised)
       THEN /\ warnings' = warnings + 1
            /\ raised' = "none"
            /\ qpc' = "reads"
       ELSE /\ qpc' = "aborted"
            /\ UNCHANGED <<warnings, raised>>
    /\ UNCHANGED <<genes, chromosomes, min_exons, min_coverage, map_threshold,
                   bam_reads, gene_names, gene_info, reads, progress_counter,
                   files, gene_counts, reasons_for_failure, counts, locations,
                   cDNA_locations, reverse_exon_index, reverse_exon_first,
                   chexons_result>>
    /\ UNCHANGED <<cvars, flexibility, mvars>>

\* lines 664-674: the gene's sequence file is removed, its counts are stored
FinishGene ==
    /\ qpc = "reads"
    /\ progress_counter = Len(reads)
    /\ files' = files \ {fasta_file}
    /\ counts' = Put(counts, [key |-> str_join(gene_info.ids, ":"),
                              gene_counts |-> gene_counts])
    /\ gene_names' = Tail(gene_names)
    /\ qpc' = "genes"
    /\ UNCHANGED <<genes, chromosomes, min_exons, min_coverage, map_threshold,
                   bam_reads, gene_info, reads, progress_counter, gene_counts,
                   reasons_for_failure, locations, cDNA_locations,
                   reverse_exon_index, reverse_exon_first, chexons_result,
                   raised, warnings>>
    /\ UNCHANGED <<cvars, flexibility, mvars>>

\* line 676
ReturnCounts ==
    /\ qpc = "genes"
    /\ gene_names = <<>>
    /\ qpc' = "done"
    /\ UNCHANGED <<genes, chromosomes, min_exons, min_coverage, map_threshold,
                   bam_reads, gene_names, gene_info, reads, progress_counter,
                   files, gene_counts, reasons_for_failure, counts, locations,
                   cDNA_locations, reverse_exon_index, reverse_exon_first,
                   chexons_result, raised, warnings>>
    /\ UNCHANGED <<cvars, flexibility, mvars>>

NextReads ==
    \/ EnterLoop \/ SkipGene \/ StartGene \/ WriteReadFile \/ ChexonsRuns
    \/ ChexonsFails \/ ParseDat \/ ParseDatRaises \/ TrimStep \/ Classify
    \/ CountResult \/ CatchException \/ FinishGene \/ ReturnCounts

\* get_chexons_segment_string from the parsing of the .dat file to its return
NextSegments == ParseDat \/ TrimStep \/ Classify

(***************************************************************************)
(* The annotations, samples and reads of the runs of process_bam_file.     *)
(***************************************************************************)
\* the most segments chexons reports for a read
MaxSegments == 3
\* the longest read-local span of a read's last segment
MaxTail == 8

\* genes of the annotation: ids that share name, chromosome and strand, that
\* differ in the strand, in the chromosome, in the name, and a name with "_"
Ga == [id |-> "ENSMUSG1", name |-> "Gna", chrom |-> "1", strand |-> "+",
       start |-> 5001, end |-> 5401, splice_acceptors |-> {5150, 5200}]
Gb == [id |-> "ENSMUSG2", name |-> "Gna", chrom |-> "1", strand |-> "+",
       start |-> 5001, end |-> 5301, splice_acceptors |-> {5150}]
Gc == [id |-> "ENSMUSG3", name |-> "Gna", chrom |-> "1", strand |-> "-",
       start |-> 5001, end |-> 5401, splice_acceptors |-> {5100, 5160}]
Gd == [id |-> "ENSMUSG4", name |-> "Gna", chrom |-> "2", strand |-> "+",
       start |-> 5001, end |-> 5401, splice_acceptors |-> {5150, 5200}]
Ge == [id |-> "ENSMUSG5", name |-> "Hla_a", chrom |-> "1", strand |-> "+",
       start |-> 5001, end |-> 5401, splice_acceptors |-> {5150, 5200}]
Gf == [id |-> "ENSMUSG6", name |-> "Myc", chrom |-> "1", strand |-> "+",
       start |-> 5001, end |-> 5401, splice_acceptors |-> {5150, 5200}]

GeneSets == {<<Ga>>, <<Ga, Gb>>, <<Ga, Gc>>, <<Ga, Gd>>, <<Ga, Ge>>, <<Ga, Gf>>,
             <<Gb, Gc, Ga>>}

ChromosomeSets == {{"1"}, {"1", "2"}}

\* the gene-local start and end of a segment: a first exon, an exon at the
\* known acceptor 5150, the same exon run backwards, and an exon that starts
\* 7 bases from the known acceptor 5200
SegmentShapes ==
    {<<5050, 5100>>, <<5150, 5160>>, <<5160, 5150>>, <<5207, 5250>>}

RECURSIVE Repeat(_, _)
\* unit * n
Repeat(unit, n) == IF n = 0 THEN "" ELSE unit \o Repeat(unit, n - 1)

\* the read-local span of the i-th of n segments: 4 bases, and tail bases
\* for the last one
cdna_of(i, n, tail) ==
    IF i < n THEN <<4 * (i - 1), 4 * i>> ELSE <<4 * (n - 1), 4 * (n - 1) + tail>>

\* the bases of the i-th of n segments of a read whose last rich segments
\* are repeats: of unit in the last segment, of T or GT before it
segment_text(i, n, rich, tail, unit) ==
    IF i < n
    THEN IF i > n - rich THEN (IF i % 2 = 0 THEN "TTTT" ELSE "GTGT") ELSE "CGTC"
    ELSE IF rich > 0 THEN StrPrefix(Repeat(unit, tail), tail)
    ELSE StrPrefix(Repeat("CGTC", tail), tail)

RECURSIVE segments_text(_, _, _, _, _)
segments_text(i, n, rich, tail, unit) ==
    IF i > n THEN ""
    ELSE segment_text(i, n, rich, tail, unit) \o segments_text(i + 1, n, rich, tail, unit)

\* the .dat file chexons writes for the segments
dat_of(shapes, tail) ==
    <<[kind |-> "rule"], [kind |-> "Seg"], [kind |-> "rule"]>>
    \o [i \in DOMAIN shapes |->
           [kind |-> "data", cdna |-> cdna_of(i, Len(shapes), tail), genomic |-> shapes[i]]]
    \o <<[kind |-> "rule"]>>

\* a read aligned as the segments of shapes, followed by pad unaligned bases
ReadOf(shapes, rich, tail, unit, pad) ==
    [sequence |-> segments_text(1, Len(shapes), rich, tail, unit) \o Repeat("C", pad),
     dat |-> dat_of(shapes, tail)]

\* the repeat unit of a rich last segment and the unaligned bases after it
ReadEnds == {<<"A", 0>>, <<"AC", 0>>, <<"A", 80>>}

\* the reads of up to MaxSegments segments
SegmentReads ==
    UNION {{ReadOf(shapes, rich, tail, ends[1], ends[2]) :
               shapes \in [1..n -> SegmentShapes], rich \in 0..n,
               tail \in 4..MaxTail, ends \in ReadEnds} :
           n \in 1..MaxSegments}

\* a read whose .dat file has a line int() rejects
bad_read ==
    [sequence |-> "CGTCCGTC",
     dat |-> <<[kind |-> "rule"], [kind |-> "Seg"], [kind |-> "rule"],
               [kind |-> "data", cdna |-> <<0, 4>>, genomic |-> <<5050, 5100>>],
               [kind |-> "bad"]>>]

\* the reads of a sample: a pattern of three segments, a read with a polyA
\* tail, a read of one segment, a read spliced backwards, a bad file
BamReadCatalogue ==
    {ReadOf(<< <<5050, 5100>>, <<5150, 5160>>, <<5200, 5250>> >>, 0, 4, "A", 0),
     ReadOf(<< <<5050, 5100>>, <<5150, 5160>>, <<5207, 5250>> >>, 1, 8, "A", 0),
     ReadOf(<< <<5050, 5100>> >>, 0, 4, "A", 0),
     ReadOf(<< <<5050, 5100>>, <<5160, 5150>>, <<5200, 5250>> >>, 0, 4, "A", 0),
     bad_read}

BamReads == UNION {[1..n -> BamReadCatalogue] : n \in 0..MaxReads}

\* collate_splice_variants has not been called
CollateIdle ==
    /\ genes_transcripts_exons =
           [transcripts |-> <<>>, splice_donors |-> {}, splice_acceptors |-> {}]
    /\ data = <<>>
    /\ splice_counts = <<>>
    /\ unknown_transcript = 1
    /\ all_donors = <<>>
    /\ all_acceptors = <<>>
    /\ all_splices = <<>>
    /\ map_to_return = <<>>
    /\ valid_splice_patterns = <<>>
    /\ merged_data = <<>>
    /\ pc = "idle"
    /\ k = 1
    /\ error = "none"

\* the locals of a call of process_bam_file before its first statement
InitLocals ==
    /\ gene_names = <<>>
    /\ gene_counts = <<>>
    /\ reasons_for_failure = <<>>
    /\ counts = <<>>
    /\ locations = <<>>
    /\ cDNA_locations = <<>>
    /\ reverse_exon_index = 0
    /\ reverse_exon_first = FALSE
    /\ chexons_result = [type |-> "none"]
    /\ raised = "none"
    /\ warnings = 0

\* main, lines 45-57, with the defaults of get_options
InitOptions ==
    /\ flexibility = 5
    /\ min_exons = 2
    /\ min_coverage = 10
    /\ map_threshold = 10

\* process_bam_file is called for one sample
InitReads ==
    /\ genes \in GeneSets
    /\ chromosomes \in ChromosomeSets
    /\ bam_reads \in BamReads
    /\ InitOptions
    /\ gene_info = [ids |-> <<>>]
    /\ reads = <<>>
    /\ progress_counter = 0
    /\ files = {}
    /\ InitLocals
    /\ qpc = "start"
    /\ CollateIdle
    /\ MainIdle

SpecReads == InitReads /\ [][NextReads]_vars

\* get_chexons_segment_string has run chexons for one read of a gene
InitSegments ==
    /\ genes \in {<<Ga>>, <<Gc>>}
    /\ chromosomes = {"1"}
    /\ bam_reads \in {<<read>> : read \in SegmentReads}
    /\ InitOptions
    /\ gene_info = gene_info_of(gene_name_of(genes[1]), genes)
    /\ reads = bam_reads
    /\ progress_counter = 1
    /\ files = {fasta_file, read_file, dat_file}
    /\ InitLocals
    /\ qpc = "parse"
    /\ CollateIdle
    /\ MainIdle

SpecSegments == InitSegments /\ [][NextSegments]_vars

(***************************************************************************)
(* The collator for genes of both strands whose transcripts all have two   *)
(* exons or more.                                                          *)
(***************************************************************************)
\* transcripts on the - strand: the exon lines in transcript order
Tr == [id |-> "ENSMUST8", strand |-> "-",
       exons |-> << <<200, 250>>, <<150, 160>>, <<50, 100>> >>,
       exon_number |-> <<1, 2, 3>>]
Tu == [id |-> "ENSMUST9", strand |-> "-",
       exons |-> << <<50, 100>>, <<203, 250>> >>, exon_number |-> <<2, 1>>]

AnnotationsBothStrands == {<<Ta, Tb>>, <<Tc, Td>>, <<Tr, Tu>>, <<Tr>>}

\* the sites of the splice-site file, some of them next to annotated ones
KnownSitesBothStrands ==
    {[donors |-> {}, acceptors |-> {}],
     [donors |-> {101, 201}, acceptors |-> {99, 161, 199}]}

\* the patterns of the reads of a gene of the strand, the first exon first
ReadPatternsOf(strand) ==
    IF strand = "+"
    THEN ReadPatterns
    ELSE {<< <<200>>, <<160, 150>>, <<100>> >>,
          << <<203>>, <<100>> >>,
          << <<202>>, <<100>> >>,
          << <<200>>, <<161, 152>>, <<100>> >>}

InitBothStrands ==
    /\ \E transcripts \in AnnotationsBothStrands, sites \in KnownSitesBothStrands :
          /\ genes_transcripts_exons = GeneModel(transcripts, sites)
          /\ \E nbams \in 1..MaxBams :
                \E read_list \in ReadLists(nbams, ReadPatternsOf(transcripts[1].strand)) :
                    data = [b \in 1..nbams |-> gene_counts_of(results_of(read_list, b))]
    /\ flexibility \in Flexibilities
    /\ InitCollate

SpecBothStrands == InitBothStrands /\ [][Next]_vars

(***************************************************************************)
(* get_chexons_segment_string with the thresholds of its checks in reach:  *)
(* a gene so long that two exons cover less than a tenth of it, min_exons  *)
(* of 1 and of 2, and reads for which chexons reports no segment.  The     *)
(* annotation main has built of the gene is there too.                     *)
(***************************************************************************)
Gw == [id |-> "ENSMUSG7", name |-> "Ttn", chrom |-> "1", strand |-> "+",
       start |-> 5001, end |-> 6501, splice_acceptors |-> {5150, 5200}]

\* the reads of no segment and of up to MaxSegments segments, the last one
\* short or long
CheckReads ==
    UNION {{ReadOf(shapes, rich, tail, ends[1], ends[2]) :
               shapes \in [1..n -> SegmentShapes], rich \in 0..n,
               tail \in {4, MaxTail}, ends \in ReadEnds} :
           n \in 0..MaxSegments}

\* transcripts of the genes: three exons and a single exon on the + strand,
\* three exons on the - strand, two exons
Tk == [id |-> "ENSMUST11", strand |-> "+",
       exons |-> << <<5050, 5100>>, <<5150, 5160>>, <<5200, 5250>> >>,
       exon_number |-> <<1, 2, 3>>]
Tl == [id |-> "ENSMUST12", strand |-> "+",
       exons |-> << <<5050, 5100>> >>, exon_number |-> <<1>>]
Tm == [id |-> "ENSMUST13", strand |-> "-",
       exons |-> << <<5200, 5250>>, <<5150, 5160>>, <<5050, 5100>> >>,
       exon_number |-> <<1, 2, 3>>]
Tn == [id |-> "ENSMUST14", strand |-> "+",
       exons |-> << <<5050, 5100>>, <<5150, 5160>> >>, exon_number |-> <<1, 2>>]

\* the transcripts of the annotation of a gene
transcripts_of(g) ==
    IF g = Ga THEN <<Tk, Tl>> ELSE IF g = Gc THEN <<Tm>> ELSE <<Tn>>

InitChecks ==
    /\ genes \in {<<Ga>>, <<Gc>>, <<Gw>>}
    /\ chromosomes = {"1"}
    /\ bam_reads \in {<<read>> : read \in CheckReads}
    /\ flexibility = 5
    /\ min_exons \in {1, 2}
    /\ min_coverage = 10
    /\ map_threshold = 10
    /\ gene_info = gene_info_of(gene_name_of(genes[1]), genes)
    /\ reads = bam_reads
    /\ progress_counter = 1
    /\ files = {fasta_file, read_file, dat_file}
    /\ InitLocals
    /\ qpc = "parse"
    /\ genes_transcripts_exons =
           GeneModel(transcripts_of(genes[1]), [donors |-> {}, acceptors |-> {}])
    \* collate_splice_variants has not been called
    /\ data = <<>>
    /\ splice_counts = <<>>
    /\ unknown_transcript = 1
    /\ all_donors = <<>>
    /\ all_acceptors = <<>>
    /\ all_splices = <<>>
    /\ map_to_return = <<>>
    /\ valid_splice_patterns = <<>>
    /\ merged_data = <<>>
    /\ pc = "idle"
    /\ k = 1
    /\ error = "none"
    /\ MainIdle

SpecChecks == InitChecks /\ [][NextSegments]_vars

(***************************************************************************)
(* main and the two writers.  The run has one gene; what read_gtf and      *)
(* read_fasta return and what process_bam_file returns for each BAM file   *)
(* are inputs.  options.report_all is off, and the field merged_count that *)
(* write_gtf_output adds to the records, read under report_all only, is    *)
(* left out.  Of an output file the model keeps whether it was created.    *)
(***************************************************************************)
RECURSIVE str_replace(_, _, _)
\* s.replace(old, new) for an old that is not empty
str_replace(s, old, new) ==
    IF Len(s) < Len(old) THEN s
    ELSE IF SubSeq(s, 1, Len(old)) = old
         THEN new \o str_replace(SubSeq(s, Len(old) + 1, Len(s)), old, new)
         ELSE SubSeq(s, 1, 1) \o str_replace(SubSeq(s, 2, Len(s)), old, new)

\* Path(file).parent for a relative path
parent_of(file) ==
    LET parts == str_split(file, "/")
    IN  IF Len(parts) = 1 THEN "." ELSE str_join(SubSeq(parts, 1, Len(parts) - 1), "/")

\* lines 76-83 and 88-91: the file write_gtf_output is called with
gtf_outfile_of(file, both) ==
    IF file = "nexons_output.txt" THEN "nexons_output.gtf"
    ELSE IF both THEN str_replace(str_replace(file, ".txt", ""), ".gtf", "") \o ".gtf"
    ELSE file

\* lines 76-83 and 94: the file write_output is called with
custom_outfile_of(file, both) ==
    IF file = "nexons_output.txt" THEN "nexons_output.txt"
    ELSE IF both THEN str_replace(str_replace(file, ".txt", ""), ".gtf", "") \o ".txt"
    ELSE file

\* lines 47-51
clamped(n) == IF n < 1 THEN 1 ELSE n

\* the seqname of read_fasta before the first header line
None == "<None>"

\* lines 963-996: the keys of the dict read_fasta returns for a file with
\* these header lines, or the exception for a name that is there twice; the
\* sequence read last is stored after the loop, under None when the file
\* has no header line
read_fasta(names) ==
    IF \E i, j \in DOMAIN names : i < j /\ names[i] = names[j]
    THEN [raised |-> TRUE, chromosomes |-> {}]
    ELSE [raised |-> FALSE,
          chromosomes |-> IF names = <<>> THEN {None} ELSE Range(names)]

\* lines 124, 382 and 466: the genes of the tables, those of the first sample
genes_of(d) == Keys(d[1])

\* line 936: the values of direction get_reads understands
understood(d) == d \in {"none", "opposing", "same"}

\* lines 565-587: process_bam_file has no sequence for the gene and skips it
skipped(g) == g.chrom \notin chromosomes

\* lines 477-500: write_gtf_output looks up the metadata of every pattern of
\* every sample; a pattern without a record raises KeyError
gtf_lookup_fails(md, sc) ==
    \E b \in DOMAIN md : \E m \in DOMAIN md[b] : ~HasKey(sc, md[b][m].key)

\* lines 393-424: write_output looks up the metadata of the patterns whose
\* highest count over the samples is at least mincount
custom_lookup_fails(md, sc, least) ==
    \E b \in DOMAIN md : \E m \in DOMAIN md[b] :
        /\ ~HasKey(sc, md[b][m].key)
        /\ \E c \in DOMAIN md :
               /\ HasKey(md[c], md[b][m].key)
               /\ Get(md[c], md[b][m].key).count >= least

\* the variables of process_bam_file main does not set
plocals == <<bam_reads, gene_names, gene_info, reads, progress_counter, files,
             gene_counts, reasons_for_failure, counts, locations, cDNA_locations,
             reverse_exon_index, reverse_exon_first, chexons_result, raised,
             warnings, qpc>>

\* the options of the command line and the sequence file
moptions == <<direction, minexons, mincount, both_out, gtf_out, outfile, fasta,
              bam_files>>

\* lines 33-36
CheckGenes ==
    /\ mpc = "genes"
    /\ IF Len(genes) = 0
       THEN /\ uncaught' = "No genes found"
            /\ mpc' = "aborted"
       ELSE /\ mpc' = "chromosomes"
            /\ UNCHANGED uncaught
    /\ UNCHANGED <<moptions, quantitations, outputs>>
    /\ UNCHANGED <<cvars, flexibility, plocals>>
    /\ UNCHANGED <<genes, chromosomes, min_exons, min_coverage, map_threshold>>

\* lines 38-51
CheckChromosomes ==
    /\ mpc = "chromosomes"
    /\ LET found == read_fasta(fasta)
       IN  IF found.raised
           THEN /\ uncaught' = "Duplicate sequence name"
                /\ mpc' = "aborted"
                /\ UNCHANGED <<chromosomes, min_exons>>
           ELSE /\ chromosomes' = found.chromosomes
                /\ IF found.chromosomes = {}
                   THEN /\ uncaught' = "No chromosomes found"
                        /\ mpc' = "aborted"
                        /\ UNCHANGED min_exons
                   ELSE /\ min_exons' = clamped(minexons)
                        /\ mpc' = "quantitate"
                        /\ UNCHANGED uncaught
    /\ UNCHANGED <<moptions, quantitations, outputs>>
    /\ UNCHANGED <<cvars, flexibility, plocals>>
    /\ UNCHANGED <<genes, min_coverage, map_threshold>>

\* the splice patterns of the reads of the gene
MainPatterns ==
    {<< <<101>> >>, << <<103>>, <<200>> >>, << <<100>>, <<200>> >>}

\* lines 55-64: process_bam_file returns the counts of the next BAM file:
\* no gene when it skipped the gene, else the table of the accepted reads,
\* each of min_exons segments or more
Quantitate ==
    /\ mpc = "quantitate"
    /\ Len(quantitations) < bam_files
    /\ skipped(genes[1]) \/ understood(direction)
    /\ \E read_list \in ReadLists(1, {p \in MainPatterns : Len(p) >= min_exons}) :
          quantitations' =
              Append(quantitations,
                     IF skipped(genes[1]) THEN <<>>
                     ELSE <<[key |-> genes[1].id,
                             gene_counts |-> gene_counts_of(results_of(read_list, 1))]>>)
    /\ UNCHANGED <<moptions, outputs, uncaught, mpc>>
    /\ UNCHANGED <<cvars, flexibility, plocals>>
    /\ UNCHANGED <<genes, chromosomes, min_exons, min_coverage, map_threshold>>

\* lines 57, 610 and 936: get_reads raises and nothing catches it
QuantitateRaises ==
    /\ mpc = "quantitate"
    /\ Len(quantitations) < bam_files
    /\ ~skipped(genes[1])
    /\ ~understood(direction)
    /\ uncaught' = "Didn't understand directionality"
    /\ mpc' = "aborted"
    /\ UNCHANGED <<moptions, quantitations, outputs>>
    /\ UNCHANGED <<cvars, flexibility, plocals>>
    /\ UNCHANGED <<genes, chromosomes, min_exons, min_coverage, map_threshold>>

\* lines 68 and 122-136: collate_splice_variants is called; with no gene in
\* the tables its loop over the genes has nothing to do
CallCollate ==
    /\ mpc = "quantitate"
    /\ Len(quantitations) = bam_files
    /\ pc = "idle"
    /\ IF genes_of(quantitations) = <<>>
       THEN /\ data' = [b \in 1..bam_files |-> <<>>]
            /\ merged_data' = [b \in 1..bam_files |-> <<>>]
            /\ pc' = "done"
       ELSE /\ data' = [b \in 1..bam_files |->
                           Get(quantitations[b], genes_of(quantitations)[1]).gene_counts]
            /\ pc' = "seed"
            /\ UNCHANGED merged_data
    /\ mpc' = "collate"
    /\ UNCHANGED <<genes_transcripts_exons, splice_counts, unknown_transcript,
                   all_donors, all_acceptors, all_splices, map_to_return,
                   valid_splice_patterns, k, error>>
    /\ UNCHANGED <<moptions, quantitations, outputs, uncaught>>
    /\ UNCHANGED <<flexibility, qvars>>

\* line 68: the exception of collate_splice_variants leaves main
CollateRaises ==
    /\ mpc = "collate"
    /\ pc = "failed"
    /\ uncaught' = error
    /\ mpc' = "aborted"
    /\ UNCHANGED <<moptions, quantitations, outputs>>
    /\ UNCHANGED <<cvars, flexibility, qvars>>

\* lines 71-72: the directory of the output file is made when it is not there
MakeDirectory ==
    /\ mpc = "collate"
    /\ pc = "done"
    /\ outputs' = IF parent_of(outfile) = "." THEN outputs
                  ELSE outputs \cup {parent_of(outfile)}
    /\ mpc' = IF both_out \/ gtf_out THEN "write_gtf_output" ELSE "write_output"
    /\ UNCHANGED <<moptions, quantitations, uncaught>>
    /\ UNCHANGED <<cvars, flexibility, qvars>>

\* lines 84 and 92, 440-546: the file is opened, which creates it, and the
\* lines are written
WriteGtfOutput ==
    /\ mpc = "write_gtf_output"
    /\ outputs' = outputs \cup {gtf_outfile_of(outfile, both_out)}
    /\ IF gtf_lookup_fails(merged_data, splice_counts)
       THEN /\ uncaught' = "KeyError"
            /\ mpc' = "aborted"
       ELSE /\ mpc' = IF both_out THEN "write_output" ELSE "completed"
            /\ UNCHANGED uncaught
    /\ UNCHANGED <<moptions, quantitations>>
    /\ UNCHANGED <<cvars, flexibility, qvars>>

\* lines 85 and 94, 365-437: the file is opened, which creates it, the lines
\* are written, and line 437 reads passed_splices, which has no value when
\* the loop over the genes had no turn
WriteOutput ==
    /\ mpc = "write_output"
    /\ outputs' = outputs \cup {custom_outfile_of(outfile, both_out)}
    /\ IF custom_lookup_fails(merged_data, splice_counts, mincount)
       THEN /\ uncaught' = "KeyError"
            /\ mpc' = "aborted"
       ELSE IF genes_of(quantitations) = <<>>
       THEN /\ uncaught' = "UnboundLocalError"
            /\ mpc' = "aborted"
       ELSE /\ mpc' = "completed"
            /\ UNCHANGED uncaught
    /\ UNCHANGED <<moptions, quantitations>>
    /\ UNCHANGED <<cvars, flexibility, qvars>>

NextMain ==
    \/ CheckGenes \/ CheckChromosomes \/ Quantitate \/ QuantitateRaises
    \/ CallCollate \/ Seed \/ Observe \/ Sort \/ MapStep \/ StartFold
    \/ FoldStep \/ Return \/ CollateRaises \/ MakeDirectory
    \/ WriteGtfOutput \/ WriteOutput

\* the gene of the run as process_bam_file and the writers see it
Gm == [id |-> "ENSMUSG1", name |-> "Gna", chrom |-> "1", strand |-> "+",
       start |-> 50, end |-> 250, splice_acceptors |-> {200}]

\* the transcripts of the gene: two of two exons, one of two exons and one
\* of a single exon, a single exon alone
AnnotationsMain == {<<Ta, Tb>>, <<Tb, Ts>>, <<Ts>>}

InitMain ==
    /\ genes \in {<<>>, <<Gm>>}
    /\ IF genes = <<>>
       THEN genes_transcripts_exons =
                [transcripts |-> <<>>, splice_donors |-> {}, splice_acceptors |-> {}]
       ELSE \E transcripts \in AnnotationsMain :
                genes_transcripts_exons =
                    GeneModel(transcripts, [donors |-> {}, acceptors |-> {}])
    /\ chromosomes = {}
    /\ fasta \in {<<>>, <<"1">>, <<"2">>, <<"1", "1">>}
    /\ direction \in {"none", "sideways"}
    /\ minexons \in {0, 2}
    /\ mincount \in {1, 2}
    /\ both_out \in BOOLEAN
    /\ gtf_out \in BOOLEAN
    /\ outfile \in {"nexons_output.txt", "out/run.txt"}
    /\ bam_files \in 1..MaxBams
    /\ flexibility = 5
    /\ min_exons = 2
    /\ min_coverage = 10
    /\ map_threshold = 10
    /\ quantitations = <<>>
    /\ outputs = {}
    /\ uncaught = "none"
    /\ mpc = "genes"
    \* collate_splice_variants has not been called
    /\ data = <<>>
    /\ splice_counts = <<>>
    /\ unknown_transcript = 1
    /\ all_donors = <<>>
    /\ all_acceptors = <<>>
    /\ all_splices = <<>>
    /\ map_to_return = <<>>
    /\ valid_splice_patterns = <<>>
    /\ merged_data = <<>>
    /\ pc = "idle"
    /\ k = 1
    /\ error = "none"
    \* process_bam_file is not running
    /\ bam_reads = <<>>
    /\ gene_info = [ids |-> <<>>]
    /\ reads = <<>>
    /\ progress_counter = 0
    /\ files = {}
    /\ InitLocals
    /\ qpc = "idle"

SpecMain == InitMain /\ [][NextMain]_vars

(***************************************************************************)
(* Properties.                                                             *)
(***************************************************************************)
RECURSIVE SumFn(_, _)
\* the sum of f[x] over the x of the finite set S
SumFn(f, S) ==
    IF S = {} THEN 0
    ELSE LET x == CHOOSE y \in S : TRUE IN f[x] + SumFn(f, S \ {x})

\* how often v occurs in the list s
CountOf(s, v) == Cardinality({i \in DOMAIN s : s[i] = v})

\* the positions of sample b's input patterns that resolve to the bucket key
ResolvedTo(b, key) ==
    {i \in DOMAIN data[b] : Get(map_to_return, data[b][i].key).splice = key}

\* the list field (start or end) of the bucket is, as a multiset, the union
\* of that field over the input patterns at the positions from
SameMultiset(bucket_list, b, from, field) ==
    LET values == Range(bucket_list) \cup
                  UNION {Range(data[b][i][field]) : i \in DOMAIN data[b]}
    IN  \A v \in values :
            CountOf(bucket_list, v) =
                SumFn([i \in from |-> CountOf(data[b][i][field], v)], from)

\* C1: once collate_splice_variants has returned, in every sample the counts of
\* the merged table add up to the counts of the sample's input patterns, every
\* input pattern has the bucket it resolves to, and each bucket's count, start
\* list and end list are exactly the sum and the multiset union of the input
\* patterns that resolve to it: nothing is dropped, nothing is counted twice.
C1_CollationConservesObservations ==
    pc = "done" =>
        \A b \in DOMAIN data :
            /\ DOMAIN merged_data = DOMAIN data
            /\ SumFn([m \in DOMAIN merged_data[b] |-> merged_data[b][m].count],
                     DOMAIN merged_data[b])
                   = SumFn([i \in DOMAIN data[b] |-> data[b][i].count], DOMAIN data[b])
            /\ \A i \in DOMAIN data[b] :
                   HasKey(merged_data[b], Get(map_to_return, data[b][i].key).splice)
            /\ \A m \in DOMAIN merged_data[b] :
                   LET bucket == merged_data[b][m]
                       from == ResolvedTo(b, bucket.key)
                   IN  /\ bucket.count = SumFn([i \in from |-> data[b][i].count], from)
                       /\ SameMultiset(bucket.start, b, from, "start")
                       /\ SameMultiset(bucket.end, b, from, "end")
                       /\ \A n \in DOMAIN merged_data[b] :
                              merged_data[b][n].key = bucket.key => n = m

\* C1 witness: the call has returned and two different input patterns of one
\* sample were folded into the same bucket
C1_Witness ==
    /\ pc = "done"
    /\ \E b \in DOMAIN data : \E m \in DOMAIN merged_data[b] :
           /\ Cardinality(ResolvedTo(b, merged_data[b][m].key)) >= 2
           /\ merged_data[b][m].count >= 2

\* C3: every candidate of create_splice_name_map resolves to a pattern with
\* as many segments as the candidate has, whatever the flexibility
C3_LengthPreserved ==
    \A i \in DOMAIN map_to_return :
        Len(map_to_return[i].splice) = Len(map_to_return[i].key)

\* C3 witness: with a flexibility larger than every coordinate difference, a
\* candidate was resolved while a pattern of another length was already accepted
C3_Witness ==
    /\ flexibility = 1000
    /\ \E i, j \in DOMAIN map_to_return :
           /\ i < j
           /\ map_to_return[i].splice \in Range(valid_splice_patterns)
           /\ Len(map_to_return[i].splice) # Len(map_to_return[j].key)

\* the known sites the claim relates the boundary j of element i of a pattern
\* of n elements to
KindOfSites(i, j, n) ==
    IF i = 1 THEN genes_transcripts_exons.splice_donors
    ELSE IF i = n THEN genes_transcripts_exons.splice_acceptors
    ELSE IF j = 1 THEN genes_transcripts_exons.splice_acceptors
    ELSE genes_transcripts_exons.splice_donors

\* C4: whenever a candidate is accepted as a new pattern, each boundary of the
\* accepted pattern is either the candidate's own value or a known site of the
\* relevant kind at a distance d, 0 < d <= flexibility; a boundary that is on
\* a known site of the relevant kind is unchanged; and the entry is recorded
\* with updated = true exactly when some boundary was moved
C4_CorrectionWithinFlexibility ==
    [][(pc = "map" /\ Len(valid_splice_patterns') = Len(valid_splice_patterns) + 1) =>
        LET candidate == all_splices[k]
            accepted == valid_splice_patterns'[Len(valid_splice_patterns')]
            entry == Get(map_to_return', candidate)
        IN  /\ entry.splice = accepted
            /\ DOMAIN accepted = DOMAIN candidate
            /\ \A i \in DOMAIN candidate :
                   /\ DOMAIN accepted[i] = DOMAIN candidate[i]
                   /\ \A j \in DOMAIN candidate[i] :
                          LET old == candidate[i][j]
                              new == accepted[i][j]
                              sites == KindOfSites(i, j, Len(candidate))
                          IN  /\ \/ new = old
                                 \/ /\ 0 < abs(new - old)
                                    /\ abs(new - old) <= flexibility
                                    /\ new \in sites
                              /\ old \in sites => new = old
            /\ entry.updated = (\E i \in DOMAIN candidate :
                                    \E j \in DOMAIN candidate[i] :
                                        accepted[i][j] # candidate[i][j])]_vars

\* C4 witness: an accepted candidate had one boundary moved to a known site
\* and another boundary, lying exactly on a known site, left where it was
C4_Witness ==
    \E e \in Range(map_to_return) :
        /\ e.updated
        /\ \E i \in DOMAIN e.key : \E j \in DOMAIN e.key[i] :
               /\ e.splice[i][j] # e.key[i][j]
               /\ e.splice[i][j] \in KindOfSites(i, j, Len(e.key))
        /\ \E i \in DOMAIN e.key : \E j \in DOMAIN e.key[i] :
               /\ e.key[i][j] \in KindOfSites(i, j, Len(e.key))
               /\ e.splice[i][j] = e.key[i][j]

\* a and b have the same length and differ by at most the flexibility at
\* every boundary
Within(a, b) ==
    /\ Len(a) = Len(b)
    /\ \A i \in DOMAIN a : \A j \in DOMAIN a[i] :
           abs(a[i][j] - b[i][j]) <= flexibility

\* the sum of the distances between the boundaries of a and b
Distance(a, b) ==
    SumFn([i \in DOMAIN a |->
              SumFn([j \in DOMAIN a[i] |-> abs(a[i][j] - b[i][j])], DOMAIN a[i])],
          DOMAIN a)

\* C5: a candidate that is within flexibility of one or more accepted patterns
\* of its length is mapped to the one accepted earliest, with updated = false,
\* and is not added to the accepted list
C5_GreedyFirstMatch ==
    [][(/\ pc = "map"
        /\ k <= Len(all_splices)
        /\ \E i \in DOMAIN valid_splice_patterns :
               Within(valid_splice_patterns[i], all_splices[k])) =>
        LET candidate == all_splices[k]
            first == CHOOSE i \in DOMAIN valid_splice_patterns :
                         /\ Within(valid_splice_patterns[i], candidate)
                         /\ \A h \in 1..(i - 1) :
                                ~Within(valid_splice_patterns[h], candidate)
        IN  /\ valid_splice_patterns' = valid_splice_patterns
            /\ HasKey(map_to_return', candidate)
            /\ Get(map_to_return', candidate).splice = valid_splice_patterns[first]
            /\ Get(map_to_return', candidate).updated = FALSE]_vars

\* C5 witness: a candidate was mapped to an accepted pattern although a
\* pattern accepted later is within flexibility of it and closer to it
C5_Witness ==
    \E e \in Range(map_to_return) :
        \E i, h \in DOMAIN valid_splice_patterns :
            /\ i < h
            /\ e.splice = valid_splice_patterns[i]
            /\ e.key # e.splice
            /\ ~e.updated
            /\ Within(valid_splice_patterns[h], e.key)
            /\ Distance(valid_splice_patterns[h], e.key)
                   < Distance(valid_splice_patterns[i], e.key)

\* C2: the call never ends in a lookup failure, and once it has returned,
\* every sample's occurrence of every observed pattern, also of one that
\* correction altered and that several samples share, is in the bucket of the
\* pattern it resolves to
C2_NoLookupFailure ==
    /\ ~(pc = "failed" /\ error = "KeyError")
    /\ pc = "done" =>
           \A b \in DOMAIN data : \A i \in DOMAIN data[b] :
               LET used == Get(map_to_return, data[b][i].key).splice
               IN  /\ HasKey(merged_data[b], used)
                   /\ Get(merged_data[b], used).count >= data[b][i].count

\* the reference patterns of the gene: the keys the annotation seeds
SeededPatterns ==
    {genes_transcripts_exons.transcripts[t].splice_patterns :
        t \in DOMAIN genes_transcripts_exons.transcripts}

\* the ids Variant1, Variant2, ... handed out so far
SynthesizedIds == {"Variant" \o ToString(n) : n \in 1..(unknown_transcript - 1)}

\* the candidate the accepted pattern v originated from: the first candidate,
\* in matching order, that resolved to it
OriginOf(v) ==
    all_splices[CHOOSE i \in DOMAIN all_splices :
                    /\ HasKey(map_to_return, all_splices[i])
                    /\ Get(map_to_return, all_splices[i]).splice = v
                    /\ \A h \in 1..(i - 1) :
                           Get(map_to_return, all_splices[h]).splice # v]

ObservedSoFar ==
    LET e == entries_of(data)
        n == IF pc = "observe" THEN k - 1 ELSE Len(e)
    IN  [i \in 1..n |-> data[e[i][1]][e[i][2]]]

\* the positions of ObservedSoFar at which a novel pattern is first seen
FirstSeenNovel ==
    {i \in DOMAIN ObservedSoFar :
        /\ ObservedSoFar[i].key \notin SeededPatterns
        /\ \A h \in 1..(i - 1) : ObservedSoFar[h].key # ObservedSoFar[i].key}

\* C10: while the patterns are collected, and until the fold starts, the
\* n-th novel pattern in first-seen order has the id Variant<n>, the counter
\* is one more than the number of novel patterns seen, no two records share
\* an id, and every record's count is the sum of the counts of exactly its
\* pattern over the samples seen
C10_NovelIdentifiers ==
    pc \in {"observe", "map"} =>
        /\ unknown_transcript = 1 + Cardinality(FirstSeenNovel)
        /\ \A i \in FirstSeenNovel :
               /\ HasKey(splice_counts, ObservedSoFar[i].key)
               /\ Get(splice_counts, ObservedSoFar[i].key).transcript_id =
                      "Variant" \o ToString(1 + Cardinality({h \in FirstSeenNovel : h < i}))
        /\ \A i, j \in DOMAIN splice_counts :
               i # j => /\ splice_counts[i].key # splice_counts[j].key
                        /\ splice_counts[i].transcript_id # splice_counts[j].transcript_id
        /\ \A r \in Range(splice_counts) :
               LET at == {i \in DOMAIN ObservedSoFar : ObservedSoFar[i].key = r.key}
               IN  r.count = SumFn([i \in at |-> ObservedSoFar[i].count], at)
        /\ \A i \in DOMAIN ObservedSoFar : HasKey(splice_counts, ObservedSoFar[i].key)

\* C10 witness: a novel pattern was seen in two samples, has one record with
\* the id Variant1 and the count of both samples, and the counter stands at 2
C10_Witness ==
    /\ pc = "map"
    /\ unknown_transcript = 2
    /\ \E r \in Range(splice_counts) :
           /\ r.transcript_id = "Variant1"
           /\ \E b, c \in DOMAIN data :
                  /\ b < c
                  /\ HasKey(data[b], r.key)
                  /\ HasKey(data[c], r.key)
                  /\ r.count = Get(data[b], r.key).count + Get(data[c], r.key).count

\* the one bucket of the one sample is keyed by P and holds all ten reads,
\* and the record of P is still under the key P with the seven reads of P
SingleBucketOfP ==
    /\ Len(merged_data[1]) = 1
    /\ merged_data[1][1].key = PatternP
    /\ merged_data[1][1].count = 10
    /\ Len(merged_data[1][1].start) = 10
    /\ HasKey(splice_counts, PatternP)
    /\ Get(splice_counts, PatternP).count = 7

FirstRef == all_splices[1]
SecondRef == all_splices[2]

\* the transcript ids the record carries: its own and those merged into it
IdsOf(r) == {r.transcript_id} \cup r.merged_isoforms

\* C8: with two annotated transcripts of one gene whose patterns
\* differ by 3 bases at one boundary, flexibility 5 leaves one record that
\* carries both transcript ids, and flexibility 2 leaves two records, neither
\* carrying the other's id
C8_CollapseCarriesBothIds ==
    pc = "done" =>
        LET ids == {genes_transcripts_exons.transcripts[t].id :
                       t \in DOMAIN genes_transcripts_exons.transcripts}
        IN  /\ flexibility = 5 =>
                   \E r \in Range(splice_counts) : ids \subseteq IdsOf(r)
            /\ flexibility = 2 =>
                   /\ HasKey(splice_counts, FirstRef)
                   /\ HasKey(splice_counts, SecondRef)
                   /\ \A r \in Range(splice_counts) : ~(ids \subseteq IdsOf(r))

\* the observed patterns that donor/acceptor correction altered
CorrectedObserved ==
    {e.key : e \in {m \in Range(map_to_return) :
                        /\ m.updated
                        /\ m.splice # m.key
                        /\ \E b \in DOMAIN data : HasKey(data[b], m.key)}}

\* the id the pattern was given when it entered the table: the id of the
\* annotation, or Variant<n> for the n-th novel pattern in first-seen order
OriginalId(splice) ==
    IF splice \in SeededPatterns
    THEN Get(seeded(genes_transcripts_exons.transcripts), splice).transcript_id
    ELSE LET i == CHOOSE h \in FirstSeenNovel : ObservedSoFar[h].key = splice
         IN  "Variant" \o ToString(1 + Cardinality({h \in FirstSeenNovel : h < i}))

\* the count of the pattern over all samples
TotalCount(splice) ==
    LET at == {i \in DOMAIN ObservedSoFar : ObservedSoFar[i].key = splice}
    IN  SumFn([i \in at |-> ObservedSoFar[i].count], at)

\* C11: once the call has returned, for every observed pattern S that
\* correction altered to S' the table has no record under S and has a record
\* under S' with the id and the count S was given and uncorrected_splice = S,
\* and every record that was not rekeyed has uncorrected_splice =
\* no_correction, whatever else was observed and in whatever order
C11_CorrectionProvenance ==
    pc = "done" =>
        /\ \A splice \in CorrectedObserved :
               LET used_splice == Get(map_to_return, splice).splice
               IN  /\ ~HasKey(splice_counts, splice)
                   /\ HasKey(splice_counts, used_splice)
                   /\ Get(splice_counts, used_splice).transcript_id = OriginalId(splice)
                   /\ Get(splice_counts, used_splice).count = TotalCount(splice)
                   /\ Get(splice_counts, used_splice).uncorrected_splice = splice
        /\ \A r \in Range(splice_counts) :
               (\A splice \in CorrectedObserved :
                    Get(map_to_return, splice).splice # r.key)
                   => r.uncorrected_splice = no_correction

\* the observed reference patterns that resolved, by matching, to an
\* accepted pattern other than themselves
MergedObserved ==
    {e.key : e \in {m \in Range(map_to_return) :
                        /\ m.key \in SeededPatterns
                        /\ ~m.updated
                        /\ m.splice # m.key
                        /\ \E b \in DOMAIN data : HasKey(data[b], m.key)}}

\* C12: once the call has returned, for every observed pattern with an
\* annotation transcript id that resolved by matching to another accepted
\* pattern, the id is in the merged_isoforms of the target's record, the
\* source still has its own record with uncorrected_splice = no_correction,
\* and in every sample the source's counts are in the target's bucket and in
\* no bucket of its own
C12_MergeProvenance ==
    pc = "done" =>
        \A splice \in MergedObserved :
            LET used_splice == Get(map_to_return, splice).splice
            IN  /\ HasKey(splice_counts, used_splice)
                /\ OriginalId(splice) \in Get(splice_counts, used_splice).merged_isoforms
                /\ HasKey(splice_counts, splice)
                /\ Get(splice_counts, splice).transcript_id = OriginalId(splice)
                /\ Get(splice_counts, splice).uncorrected_splice = no_correction
                /\ \A b \in DOMAIN data :
                       /\ ~HasKey(merged_data[b], splice)
                       /\ HasKey(data[b], splice) =>
                              /\ HasKey(merged_data[b], used_splice)
                              /\ Get(merged_data[b], used_splice).count
                                     >= Get(data[b], splice).count

\* the segments of the read as chexons reported them, before any trimming
Reported == parsed.locations

\* the i-th reported segment runs against the direction of the gene
Against(i) ==
    IF gene_info.strand = "+"
    THEN Reported[i][1] > Reported[i][2]
    ELSE Reported[i][1] < Reported[i][2]

\* the i-th reported segment starts before the end of the one before it
Backwards(i) ==
    IF gene_info.strand = "+"
    THEN Reported[i][1] < Reported[i - 1][2]
    ELSE Reported[i][1] > Reported[i - 1][2]

\* a reversal at the first segment: the segment itself, or the step from it
FirstReversed == Against(1) \/ (Len(Reported) >= 2 /\ Backwards(2))

\* the segments after the first at which a reversal shows
LaterReversals ==
    {i \in 2..Len(Reported) : Against(i) \/ (i > 2 /\ Backwards(i))}

\* the read has three segments and only the middle one runs against the gene
OnlyMiddleAgainst ==
    /\ Len(Reported) = 3
    /\ Against(2)
    /\ ~Against(1)
    /\ ~Against(3)

\* the read has at least two segments and its only reversal is the first
\* segment running against the gene
OnlyFirstAgainst ==
    /\ Len(Reported) >= 2
    /\ Against(1)
    /\ \A i \in 2..Len(Reported) : ~Against(i) /\ ~Backwards(i)

\* the only reversal of the read is at the last segment that trimming left
OnlyLastRemainingReversed ==
    /\ ~FirstReversed
    /\ LaterReversals # {}
    /\ Min(LaterReversals) = Len(locations)

Rejected(message) == chexons_result = [type |-> "str", value |-> message]

C14_OneSegmentNotEnoughExons ==
    qpc = "returned" /\ Len(Reported) = 1 /\ min_exons = 2 =>
        Rejected("FAIL: Not enough exons")

\* the i-th reported segment starts within flexibility of a known acceptor
AtKnownAcceptor(i) ==
    \E acceptor \in gene_info.splice_acceptors :
        abs(acceptor - Reported[i][1]) <= flexibility

\* the bases of the read the i-th reported segment aligns
ExonSeq(i) ==
    str_slice(sequence, parsed.cDNA_locations[i][1], parsed.cDNA_locations[i][2])

\* the segments left are the first ones reported, the segments dropped are
\* repeat-rich and off every known acceptor, and once the loop has ended
\* with a segment left, that segment is at a known acceptor or not repeat-rich
TrimmedSuffix ==
    qpc \in {"trim", "classify", "returned"} =>
        /\ Len(locations) <= Len(Reported)
        /\ locations = SubSeq(Reported, 1, Len(locations))
        /\ cDNA_locations = SubSeq(parsed.cDNA_locations, 1, Len(locations))
        /\ \A i \in (Len(locations) + 1)..Len(Reported) :
               ~AtKnownAcceptor(i) /\ repeat_rich(ExonSeq(i))
        /\ qpc # "trim" /\ Len(locations) > 0 =>
               AtKnownAcceptor(Len(locations)) \/ ~repeat_rich(ExonSeq(Len(locations)))

\* a turn of the loop drops at most the last segment, and none when the last
\* segment is at a known acceptor
TrimsOneAtATime ==
    qpc = "trim" /\ Len(locations) > 0 =>
        /\ \/ locations' = locations
           \/ locations' = SubSeq(locations, 1, Len(locations) - 1)
        /\ AtKnownAcceptor(Len(locations)) => locations' = locations /\ qpc' # "trim"

\* C15: polyA trimming drops segments from the 3' end only, one at a time,
\* stops at the first segment that is within flexibility of a known acceptor
\* or not repeat-rich, never drops a segment at a known acceptor however
\* repeat-rich it is, and never drops a segment before one it keeps
C15_PolyATrimsSuffixOnly == []TrimmedSuffix /\ [][TrimsOneAtATime]_vars

\* C15 witness: the loop has dropped a segment and then kept a repeat-rich
\* segment because it is at a known acceptor
C15_Witness ==
    /\ qpc = "returned"
    /\ Len(locations) > 0
    /\ Len(locations) < Len(Reported)
    /\ AtKnownAcceptor(Len(locations))
    /\ repeat_rich(ExonSeq(Len(locations)))

\* C16: a turn of the polyA loop drops the last segment whenever the bases of
\* the read it aligns are all A, at least 4 of them, and the segment is not
\* within flexibility of a known acceptor
C16_AllATailRemoved ==
    [][(/\ qpc = "trim"
        /\ Len(locations) > 0
        /\ Len(ExonSeq(Len(locations))) >= 4
        /\ ExonSeq(Len(locations)) = Repeat("A", Len(ExonSeq(Len(locations))))
        /\ ~AtKnownAcceptor(Len(locations)))
           => locations' = SubSeq(locations, 1, Len(locations) - 1)]_vars

\* a step taken with the exception of a read in flight returns to the loop
\* over the reads with the tables of the gene and the reads as they were
ResumesAfterException ==
    qpc = "except" =>
        /\ qpc' = "reads"
        /\ gene_counts' = gene_counts
        /\ reasons_for_failure' = reasons_for_failure
        /\ counts' = counts
        /\ reads' = reads
        /\ progress_counter' = progress_counter
        /\ gene_names' = gene_names

\* the counts of a gene are stored once every read of the gene was visited,
\* under the gene's key, as the table accumulated
StoresAfterLastRead ==
    counts' # counts /\ qpc # "start" =>
        /\ progress_counter = Len(reads)
        /\ counts' = Put(counts, [key |-> str_join(gene_info.ids, ":"),
                                  gene_counts |-> gene_counts])

\* C17: a failure of chexons, or any exception while one read is
\* interpreted, never leaves process_bam_file: the loop goes on with the
\* next read, the patterns counted so far are kept, and the gene's counts
\* are stored after the last read
C17_FailureDoesNotAbort ==
    /\ [](qpc # "aborted")
    /\ [][ResumesAfterException /\ StoresAfterLastRead]_vars

\* C17 witness: the first read of the sample raised, a later read was
\* counted, and the counts of a gene were returned with that pattern
C17_Witness ==
    /\ qpc = "done"
    /\ Len(bam_reads) = 2
    /\ bam_reads[1] = bad_read
    /\ warnings >= 1
    /\ \E i \in DOMAIN counts : counts[i].gene_counts # <<>>

\* the sum of the field count over the entries of a dict
TotalOf(d) == SumFn([i \in DOMAIN d |-> d[i].count], DOMAIN d)

\* C18: when the loop over the reads of a gene has ended, the number of
\* reads is the sum of the counts of the accepted patterns plus the sum of
\* the tally of rejection reasons, a read whose chexons run failed being one
\* entry of the tally
C18_EveryReadCountedOrTallied ==
    qpc = "reads" /\ progress_counter = Len(reads) =>
        Len(reads) = TotalOf(gene_counts) + TotalOf(reasons_for_failure)

\* C19: once get_chexons_segment_string has returned or raised, neither the
\* read file nor the .comp nor the .dat file of the read exists, and once a
\* gene is done its sequence file does not exist either
C19_ScratchFilesRemoved ==
    /\ qpc \in {"returned", "except", "reads", "genes", "done"} =>
           files \cap {read_file, comp_file, dat_file} = {}
    /\ qpc \in {"genes", "done"} => fasta_file \notin files

\* the ids of the genes with the name, chromosome and strand of g, in the
\* order of the annotation
SameLogicalGene(g) ==
    SelectSeq(genes, LAMBDA h : h.name = g.name /\ h.chrom = g.chrom /\ h.strand = g.strand)

\* C20: when process_bam_file returns, every gene on a chromosome with
\* sequence is counted under the key made of the ids that share its name,
\* chromosome and strand, joined with ":", and of no other id: genes that
\* differ in the strand alone have two keys and two tables of counts
C20_LogicalGeneGrouping ==
    qpc = "done" =>
        LET quantified == {i \in DOMAIN genes : genes[i].chrom \in chromosomes}
            key_of(i) == str_join([j \in DOMAIN SameLogicalGene(genes[i]) |->
                                      SameLogicalGene(genes[i])[j].id], ":")
        IN  /\ \A i \in quantified : HasKey(counts, key_of(i))
            /\ \A c \in DOMAIN counts : \E i \in quantified : counts[c].key = key_of(i)

\* the lengths of the lists of a bucket agree with its count
ListsAgree(bucket) ==
    bucket.count = Len(bucket.start) /\ bucket.count = Len(bucket.end)

\* C24: once collate_splice_variants has returned, every key of the merged
\* count table of every sample is a key of the gene's metadata table, so a
\* writer finds its transcript id, and in every merged bucket the count is
\* the length of the start list and of the end list, as in the input
C24_WritersFindMetadata ==
    pc = "done" =>
        \A b \in DOMAIN merged_data : \A m \in DOMAIN merged_data[b] :
            /\ HasKey(splice_counts, merged_data[b][m].key)
            /\ (\A c \in DOMAIN data : \A i \in DOMAIN data[c] : ListsAgree(data[c][i]))
                  => ListsAgree(merged_data[b][m])

\* the output files the options ask for
RequestedFiles ==
    IF both_out
    THEN {gtf_outfile_of(outfile, TRUE), custom_outfile_of(outfile, TRUE)}
    ELSE IF gtf_out THEN {gtf_outfile_of(outfile, FALSE)}
    ELSE {custom_outfile_of(outfile, FALSE)}

\* C21: a run ends in one of two ways: it completes with every requested
\* output file written, or it aborts with no output file and no output
\* directory created.  Zero genes and zero chromosomes abort the run before
\* any quantitation, a failure of the quantitation or of the collation leaves
\* no output behind, and with both formats requested no abort leaves one
\* output file written and the other missing
C21_CompletesOrAbortsBeforeOutput ==
    /\ mpc = "completed" => RequestedFiles \subseteq outputs
    /\ mpc = "aborted" => outputs = {}
    /\ (Len(genes) = 0 \/ fasta = <<>>) =>
           /\ quantitations = <<>>
           /\ mpc \in {"genes", "chromosomes", "aborted"}
    /\ (mpc = "aborted" /\ both_out) =>
           (gtf_outfile_of(outfile, TRUE) \in outputs
               <=> custom_outfile_of(outfile, TRUE) \in outputs)

\* the tests of lines 814, 818 and 822 on the segments the trimming left
LastExonTest ==
    reverse_exon_index = Len(locations) /\ ~reverse_exon_first

FirstExonTest ==
    /\ reverse_exon_first
    /\ (reverse_exon_index = 0 \/ reverse_exon_index > Len(locations))

MiddleExonTest ==
    0 < reverse_exon_index /\ reverse_exon_index <= Len(locations)

\* the tests of lines 828, 841 and 847; the two coverages are those of a
\* read with a segment left
NotEnoughExonsTest == Len(locations) < min_exons

TranscriptCoverageTest ==
    /\ Len(locations) > 0
    /\ 100 * (cDNA_locations[Len(cDNA_locations)][2] - cDNA_locations[1][1])
           < map_threshold * Len(sequence)

GeneCoverageTest ==
    /\ Len(locations) > 0
    /\ 100 * abs(locations[1][1] - locations[Len(locations)][2])
           < min_coverage * abs(gene_info.end - gene_info.start)

\* the checks in the order of the claim, each with its reason
ChecksInOrder ==
    <<[fails |-> LastExonTest,
       reason |-> "FAIL: Reverse splicing or mapping (last exon)"],
      [fails |-> FirstExonTest,
       reason |-> "FAIL: Reverse splicing or mapping (first exon)"],
      [fails |-> MiddleExonTest,
       reason |-> "FAIL: Reverse splicing or mapping (middle/>1 exon)"],
      [fails |-> NotEnoughExonsTest, reason |-> "FAIL: Not enough exons"],
      [fails |-> TranscriptCoverageTest,
       reason |-> "FAIL: Transcript coverage too low"],
      [fails |-> GeneCoverageTest, reason |-> "FAIL: Gene coverage too low"]>>

FailedChecks == {i \in DOMAIN ChecksInOrder : ChecksInOrder[i].fails}

\* the read is rejected with the reason of the first check it fails, and
\* its pattern is returned when it fails none
FirstFailedCheckDecides ==
    IF FailedChecks = {}
    THEN /\ chexons_result.type = "dict"
         /\ chexons_result.splice_boundaries = splice_boundaries_of(locations)
    ELSE Rejected(ChecksInOrder[Min(FailedChecks)].reason)

\* C22: the checks are applied to the trimmed segments in the order
\* last exon, first exon, middle/>1 exon, Not enough exons, Transcript
\* coverage too low, Gene coverage too low; one reason or one pattern is
\* returned, that of the first check that fails; and the three
\* reverse-splicing tests are mutually exclusive
C22_ChecksInOrderExclusive ==
    qpc = "returned" =>
        /\ FirstFailedCheckDecides
        /\ ~(LastExonTest /\ FirstExonTest)
        /\ ~(FirstExonTest /\ MiddleExonTest)
        /\ ~(LastExonTest /\ MiddleExonTest)

\* C22 (amended): the same order and the same single outcome; the first
\* exon test excludes the other two, and the last exon test does not exclude
\* the middle/>1 exon test: with a segment left, every read that fails the
\* last exon test fails the middle/>1 exon test too, and the order of the
\* two decides that it is reported as last exon
C22_ChecksInOrder ==
    qpc = "returned" =>
        /\ FirstFailedCheckDecides
        /\ ~(LastExonTest /\ FirstExonTest)
        /\ ~(FirstExonTest /\ MiddleExonTest)
        /\ (LastExonTest /\ Len(locations) > 0) => MiddleExonTest
        /\ LastExonTest => Rejected("FAIL: Reverse splicing or mapping (last exon)")

\* C22 witness: a read has failed the mapped fraction and the coverage of
\* the gene, and another check before them, and was rejected with the
\* reason of the earliest
C22_Witness ==
    /\ qpc = "returned"
    /\ Cardinality(FailedChecks) >= 3
    /\ {5, 6} \subseteq FailedChecks
    /\ Rejected(ChecksInOrder[Min(FailedChecks)].reason)

ReverseSplicingReasons ==
    {"FAIL: Reverse splicing or mapping (last exon)",
     "FAIL: Reverse splicing or mapping (first exon)",
     "FAIL: Reverse splicing or mapping (middle/>1 exon)"}

\* the parser has flagged no reversal in the read
NoReversalDetected == reverse_exon_index = 0 /\ ~reverse_exon_first

\* C27: a read in which no reversal was detected is never rejected with a
\* reverse-splicing reason; a read whose segments were all removed by the
\* polyA trimming, and a read for which chexons reported no segment, is
\* rejected as Not enough exons
C27_NoReversalNoReverseReason ==
    (qpc = "returned" /\ NoReversalDetected) =>
        /\ ~(\E reason \in ReverseSplicingReasons : Rejected(reason))
        /\ Len(locations) = 0 => Rejected("FAIL: Not enough exons")

\* the 5' and the 3' boundary of an exon of the annotation
Upstream(exon, strand) == IF strand = "+" THEN exon[1] ELSE exon[2]
Downstream(exon, strand) == IF strand = "+" THEN exon[2] ELSE exon[1]

\* the exons of a transcript from its 5' end to its 3' end, each as its 5'
\* and its 3' boundary
InTranscriptOrder(exons, strand) ==
    LET segments == [i \in DOMAIN exons |->
                        <<Upstream(exons[i], strand), Downstream(exons[i], strand)>>]
    IN  CHOOSE s \in [DOMAIN exons -> Range(segments)] :
            /\ \A x \in Range(segments) : CountOf(s, x) = CountOf(segments, x)
            /\ \A i, j \in DOMAIN s :
                   i < j => IF strand = "+" THEN s[i][1] <= s[j][1]
                            ELSE s[i][1] >= s[j][1]

\* the pattern has one element for each segment: the end of the first, the
\* start of the last, start and end of each segment between them
HasShapeOf(pattern, segments) ==
    /\ Len(pattern) = Len(segments)
    /\ \A i \in DOMAIN pattern :
           IF i = 1 THEN pattern[i] = <<segments[i][2]>>
           ELSE IF i = Len(pattern) THEN pattern[i] = <<segments[i][1]>>
           ELSE pattern[i] = <<segments[i][1], segments[i][2]>>

\* the shape, with the last element the start of the last segment also when
\* the last segment is the first
HasShapeLastIsStart(pattern, segments) ==
    /\ Len(pattern) = Len(segments)
    /\ \A i \in DOMAIN pattern :
           IF i = Len(pattern) THEN pattern[i] = <<segments[i][1]>>
           ELSE IF i = 1 THEN pattern[i] = <<segments[i][2]>>
           ELSE pattern[i] = <<segments[i][1], segments[i][2]>>

\* C23: the pattern of every accepted read and of every transcript of the
\* annotation has one element for each remaining segment (exon), the first
\* single-valued, the end boundary of the first segment, the last
\* single-valued, the start boundary of the last segment, every other the
\* start and the end of its segment, and the start and end reported for a
\* read are the start of its first and the end of its last remaining segment
C23_PatternShapeLastIsStart ==
    /\ (qpc = "returned" /\ chexons_result.type = "dict") =>
           /\ HasShapeLastIsStart(chexons_result.splice_boundaries, locations)
           /\ chexons_result.start = locations[1][1]
           /\ chexons_result.end = locations[Len(locations)][2]
    /\ \A t \in Range(genes_transcripts_exons.transcripts) :
           HasShapeLastIsStart(t.splice_patterns, InTranscriptOrder(t.exons, t.strand))

\* C23 (amended): the same for a pattern of two elements or more; the
\* pattern of a read with one segment left, accepted when min_exons is 1,
\* and of a transcript of a single exon has one element, single-valued, the
\* end boundary of that segment; the remaining segments are the first ones
\* chexons reported
C23_PatternShape ==
    /\ (qpc = "returned" /\ chexons_result.type = "dict") =>
           /\ locations = SubSeq(Reported, 1, Len(locations))
           /\ Len(locations) >= min_exons
           /\ HasShapeOf(chexons_result.splice_boundaries, locations)
           /\ Len(locations) = 1 =>
                  chexons_result.splice_boundaries = << <<locations[1][2]>> >>
           /\ chexons_result.start = locations[1][1]
           /\ chexons_result.end = locations[Len(locations)][2]
    /\ \A t \in Range(genes_transcripts_exons.transcripts) :
           /\ HasShapeOf(t.splice_patterns, InTranscriptOrder(t.exons, t.strand))
           /\ Len(t.exons) = 1 =>
                  t.splice_patterns = << <<Downstream(t.exons[1], t.strand)>> >>

\* C23 witness: a read of three segments was accepted after the trimming
\* had looked at its last segment, for a gene with a transcript of three
\* exons and one of a single exon
C23_Witness ==
    /\ qpc = "returned"
    /\ chexons_result.type = "dict"
    /\ Len(chexons_result.splice_boundaries) = 3
    /\ Len(chexons_result.splice_boundaries[2]) = 2
    /\ \E t, u \in Range(genes_transcripts_exons.transcripts) :
           Len(t.splice_patterns) = 3 /\ Len(u.splice_patterns) = 1

\* the records of a metadata table that carry the id
CarriedBy(table, id) == {i \in DOMAIN table : table[i].transcript_id = id}

\* C25: no step of the fold loses or overwrites a record of the metadata
\* table of the gene: every id carried by exactly one record before the
\* step, whether the id of an annotated transcript assigned while seeding or
\* a synthesized one, is carried by exactly one record after it, also when
\* a corrected pattern is a key the table already has
C25_NoRecordLostByRekeying ==
    [][pc = "fold" =>
          \A r \in Range(splice_counts) :
              Cardinality(CarriedBy(splice_counts, r.transcript_id)) = 1
                  => Cardinality(CarriedBy(splice_counts', r.transcript_id)) = 1]_vars

\* the resolved pattern has the length and the arities of the candidate and
\* no boundary of it is further than the flexibility from the candidate's
WithinFlexibility(entry) ==
    /\ Len(entry.splice) = Len(entry.key)
    /\ \A i \in DOMAIN entry.key :
           /\ Len(entry.splice[i]) = Len(entry.key[i])
           /\ \A j \in DOMAIN entry.key[i] :
                  abs(entry.splice[i][j] - entry.key[i][j]) <= flexibility

\* the bucket of a merged table without its list of merged isoforms
AsObserved(bucket) ==
    [key |-> bucket.key, count |-> bucket.count,
     start |-> bucket.start, end |-> bucket.end]

\* C26: the pattern a candidate resolves to in create_splice_name_map, by
\* matching or by correction, has the candidate's length and arities and
\* differs from it by at most the flexibility at every boundary; with
\* flexibility 0 every candidate resolves, to itself and with updated false,
\* and the merged table returned has the keys, counts, starts and ends of
\* the input table
C26_BoundedDisplacement ==
    /\ \A entry \in Range(map_to_return) : WithinFlexibility(entry)
    /\ flexibility = 0 =>
           /\ \A entry \in Range(map_to_return) :
                  entry.splice = entry.key /\ ~entry.updated
           /\ pc \in {"fold", "done", "failed"} =>
                  \A splice \in Range(all_splices) : HasKey(map_to_return, splice)
           /\ pc = "done" =>
                  /\ DOMAIN merged_data = DOMAIN data
                  /\ \A b \in DOMAIN data :
                         /\ DOMAIN merged_data[b] = DOMAIN data[b]
                         /\ \A i \in DOMAIN data[b] :
                                AsObserved(merged_data[b][i]) = AsObserved(data[b][i])

\* C29: for a gene without a known donor or without a known acceptor the
\* correction is defined: the call does not fail, and no candidate is moved,
\* so every entry of the map has updated false
C29_CorrectionDefinedWithoutSites ==
    (\/ genes_transcripts_exons.splice_donors = {}
     \/ genes_transcripts_exons.splice_acceptors = {}) =>
        /\ pc # "failed"
        /\ error = "none"
        /\ \A entry \in Range(map_to_return) : ~entry.updated

\* the patterns of the transcripts of the annotation
ReferencePatterns ==
    {t.splice_patterns : t \in Range(genes_transcripts_exons.transcripts)}

\* every boundary of the pattern is a known site of its kind
OnKnownSites(pattern) ==
    \A i \in DOMAIN pattern : \A j \in DOMAIN pattern[i] :
        pattern[i][j] \in KindOfSites(i, j, Len(pattern))

\* C28: for a gene whose transcripts all have two exons or more, numbered in
\* transcript order, on either strand: every boundary of the pattern of a
\* transcript is a donor of the gene (first element, second value of the
\* elements between) or an acceptor (last element, first value of the
\* elements between); create_splice_name_map never records a pattern of a
\* transcript as updated, and no step of the fold removes or rekeys the
\* record of a pattern of a transcript or changes its id
C28_ReferencePatternsFixed ==
    /\ [](/\ \A pattern \in ReferencePatterns : OnKnownSites(pattern)
          /\ \A entry \in Range(map_to_return) :
                 entry.key \in ReferencePatterns => ~entry.updated)
    /\ [][\A r \in Range(splice_counts) :
              r.key \in ReferencePatterns =>
                  /\ HasKey(splice_counts', r.key)
                  /\ Get(splice_counts', r.key).transcript_id = r.transcript_id]_vars

\* C28 witness: for a gene on the - strand a call has returned in which a
\* pattern of a transcript was observed, one unit from a site of the
\* splice-site file, and an observed pattern was corrected
C28_Witness ==
    /\ pc = "done"
    /\ flexibility = 2
    /\ \A t \in Range(genes_transcripts_exons.transcripts) : t.strand = "-"
    /\ 201 \in genes_transcripts_exons.splice_donors
    /\ \E entry \in Range(map_to_return) :
           /\ entry.key \in ReferencePatterns
           /\ \E b \in DOMAIN data : HasKey(data[b], entry.key)
    /\ \E entry \in Range(map_to_return) : entry.updated

====
